---- MODULE Spec2Model ----
(***************************************************************************)
(* State-machine model of the highz-digitalspec acquisition core:          *)
(*   - the accumulation synchronizer (get_acc_cnt / print_acc_cnt),         *)
(*   - device discovery (discover_fpga_address),                            *)
(*   - the calibration sequencer (main, save_all_data) with its session     *)
(*     bookkeeping (save_data, get_sub_directory),                          *)
(*   - device bring-up (initialize_fpga), the switch driver (gpio_switch)   *)
(*     and the spectrum reader (get_vacc_data).                             *)
(* Specifications: Spec and SpecLive (sequencer), SpecSync, SpecLocate,     *)
(* SpecBringUp, SpecSwitch, SpecRead, SpecIO (main loop, call by call),     *)
(* SpecSteps (synchronize-then-read steps on a counting device),            *)
(* SpecHelpers (the helpers defined in both source files).                  *)
(***************************************************************************)
EXTENDS Integers, Sequences, FiniteSets, TLC

VARIABLES
  \* ---- synchronizer harness (SpecSync)
  sy_last,      \* the last_acc_n argument of the call
  sy_reads,     \* values the acc_cnt register returned so far in the call
  sy_out,       \* progress/result of get_acc_cnt on sy_reads
  \* ---- device locator (SpecLocate)
  lc_pc,        \* position inside discover_fpga_address
  lc_hosts,     \* hostnames_to_try
  lc_i,         \* index of the hostname the method-1 loop is at
  lc_ifaces,    \* interfaces kept by method 3
  lc_j,         \* index of the interface the method-3 loop is at
  lc_log,       \* every resolution and connect attempt made, in order
  lc_ret,       \* the value returned
  lc_hint,      \* the hostname_hint argument of the call
  \* ---- sequencer (Spec)
  cfg,          \* configuration constants and command line of the run
  pc,           \* position inside main
  st,           \* the state the sweep / single-state loop is at
  n,            \* records collected so far in the current state
  acc_n,        \* global acc_n
  spectra,      \* the dict of save_all_data (averaged mode), insertion order
  cycle_count,
  sub_dir_count,
  current_parent_dir,
  current_sub_dir_path,
  pins,         \* the three GPIO output lines <<pin0, pin1, pin2>>
  now,          \* wall clock, in half seconds
  subdirs,      \* subdirectories that exist on the storage
  lastRec,      \* the record produced by the last save_all_data call
  log,          \* switch / record events of the current cycle
  pending,      \* history: cycle counter incremented since the last selection
  lastSel,      \* history: what the last save_data call did
  ref,          \* history: the session as it evolves with SAVE_DATA = True
  dup,          \* history: an id already held was read again for this record
  slack,        \* half seconds the run may still spend beyond its sleeps
  \* ---- device bring-up (SpecBringUp)
  in_pc,        \* position inside initialize_fpga
  in_attempt,   \* `attempt` of the discovery loop
  in_addr,      \* fpga_addr
  in_fpga,      \* the local `fpga` is bound
  in_adc,       \* the local `adc` is bound
  in_step,      \* index of the bring-up step the try block is at
  in_log,       \* everything the call did so far, in order
  \* ---- switch driver harness (SpecSwitch)
  sw_pins,      \* the three output lines <<pin0 (21), pin1 (20), pin2 (16)>>
  sw_prev,      \* the lines before the last gpio_switch call
  sw_n,         \* argument n of the last gpio_switch call, <<>> before any
  sw_slept,     \* settle delay the last call applied
  sw_ret,       \* what the last call returned
  \* ---- spectrum reader harness (SpecRead)
  rd_nfft,      \* NFFT
  rd_C,         \* NCHANNELS
  rd_synth,     \* the channel memories hold the synthetic c*1000+i pattern
  rd_pc,        \* position inside get_vacc_data
  rd_i,         \* channel_idx of the read loop
  rd_raw,       \* channel_data: the rows filled so far by this call
  rd_log,       \* device reads of this call in order: [reg, val, acc]
  rd_out,       \* <<>> or <<[spectrum, cnt]>>: what the call returned
  rd_calls,     \* calls completed
  rd_hw,        \* the device: accumulations completed (acc_cnt); the channel
                \* memories hold the spectrum of that accumulation
  rd_ticks,     \* accumulations the device completed since the run began
  \* ---- acquisition loop at the grain of its I/O calls (SpecIO)
  io_cfg,       \* configuration of the run
  io_pc,        \* the call main or save_all_data is about to make
  io_st,        \* s of the sweep
  io_n,         \* save_all_data calls completed in the current state
  io_held,      \* len(spectra) of the averaging loop
  io_mounted,   \* the storage is mounted right now
  io_log,       \* calls since the last switch or record, in order: [op, ok, arg]
  io_waits,     \* failed mount checks of the current wait_for_storage call
  io_recs,      \* save_all_data calls completed
  io_switched,  \* argument of the last gpio_switch call, <<>> before any
  \* ---- synchronize-then-read steps on a counting device (SpecSteps)
  ss_each,      \* SAVE_EACH_ACC
  ss_pc,        \* the call save_all_data or main is about to make
  ss_hw,        \* the device: value of the acc_cnt register right now
  ss_last,      \* the global acc_n
  ss_reads,     \* register reads made so far by the print_acc_cnt call
  ss_ids,       \* cnt of every get_vacc_data call of the run, in order
  ss_spectra,   \* the dict `spectra` of the averaging loop
  ss_steps,     \* print_acc_cnt / get_vacc_data pairs of the current record
  ss_done       \* <<>> or <<k>>: the last record took k such pairs

syncVars == <<sy_last, sy_reads, sy_out>>
locVars  == <<lc_pc, lc_hosts, lc_i, lc_ifaces, lc_j, lc_log, lc_ret, lc_hint>>
seqVars  == <<cfg, pc, st, n, acc_n, spectra, cycle_count, sub_dir_count,
              current_parent_dir, current_sub_dir_path, pins, now, subdirs,
              lastRec, log, pending, lastSel, ref, dup, slack>>
initVars == <<in_pc, in_attempt, in_addr, in_fpga, in_adc, in_step, in_log>>
swVars == <<sw_pins, sw_prev, sw_n, sw_slept, sw_ret>>
rdVars == <<rd_nfft, rd_C, rd_synth, rd_pc, rd_i, rd_raw, rd_log,
            rd_out, rd_calls, rd_hw, rd_ticks>>
ioVars == <<io_cfg, io_pc, io_st, io_n, io_held, io_mounted, io_log,
            io_waits, io_recs, io_switched>>
ssVars == <<ss_each, ss_pc, ss_hw, ss_last, ss_reads, ss_ids, ss_spectra,
            ss_steps, ss_done>>
vars == <<syncVars, locVars, seqVars, initVars, swVars, rdVars, ioVars, ssVars>>

\* what each component leaves alone
exSeq  == <<syncVars, locVars, initVars, swVars, rdVars, ioVars, ssVars>>
exSync == <<locVars, seqVars, initVars, swVars, rdVars, ioVars, ssVars>>
exLoc  == <<syncVars, seqVars, initVars, swVars, rdVars, ioVars, ssVars>>
exInit == <<syncVars, locVars, seqVars, swVars, rdVars, ioVars, ssVars>>
exSw   == <<syncVars, locVars, seqVars, initVars, rdVars, ioVars, ssVars>>
exRd   == <<syncVars, locVars, seqVars, initVars, swVars, ioVars, ssVars>>
exIo   == <<syncVars, locVars, seqVars, initVars, swVars, rdVars, ssVars>>
exSs   == <<syncVars, locVars, seqVars, initVars, swVars, rdVars, ioVars>>

None == "None"          \* Python's None where the other values are strings
NoDir == <<>>            \* current_sub_dir_path is None
NoState == <<>>          \* --state not given

\* ------------------------------------------------------------------------
\* Bounds of the model
\* ------------------------------------------------------------------------
MaxCount == 7        \* register values are drawn from 0..MaxCount (SpecSync)
MaxReads == 4        \* register reads per awaitNext call (SpecSync)

Counts == 0 .. MaxCount

\* ------------------------------------------------------------------------
\* AccumulationSynchronizer
\* ------------------------------------------------------------------------

\* mutant: the first read never replaces the baseline
Baseline_keep(first, last_acc_n) == last_acc_n

\* `if acc_n > last_acc_n: last_acc_n = acc_n`
Baseline(first, last_acc_n) == IF first > last_acc_n THEN first ELSE last_acc_n

\* `while acc_n == last_acc_n: acc_n = read_uint('acc_cnt'); c += 1`
\* run on the register values `rest`; `returned` is FALSE when the loop is
\* still polling after the last of them, `unread` counts values not consumed.
RECURSIVE PollLoop(_, _, _, _)
PollLoop(acc, last_acc_n, c, rest) ==
  IF acc = last_acc_n
  THEN IF rest = <<>>
       THEN [returned |-> FALSE, acc_n |-> acc, c |-> c, unread |-> 0]
       ELSE PollLoop(Head(rest), last_acc_n, c + 1, Tail(rest))
  ELSE [returned |-> TRUE, acc_n |-> acc, c |-> c, unread |-> Len(rest)]

\* mutant: the iteration counter starts at 0 instead of 1
get_acc_cnt_c0(reads, last_acc_n) ==
  PollLoop(reads[1], Baseline(reads[1], last_acc_n), 0, Tail(reads))

\* fpga_helper.get_acc_cnt on the register values `reads` (non-empty)
get_acc_cnt(reads, last_acc_n) ==
  PollLoop(reads[1], Baseline(reads[1], last_acc_n), 1, Tail(reads))

NoCall == [returned |-> FALSE, acc_n |-> -1, c |-> 0, unread |-> 0]

InitSync ==
  /\ sy_last \in Counts
  /\ sy_reads = <<>>
  /\ sy_out = NoCall

IdleSync ==
  /\ sy_last = 0
  /\ sy_reads = <<>>
  /\ sy_out = NoCall

\* one more read of the acc_cnt register by the call in progress
SyncRead ==
  /\ ~sy_out.returned
  /\ Len(sy_reads) < MaxReads
  /\ \E r \in Counts :
       /\ sy_reads' = Append(sy_reads, r)
       /\ sy_out' = get_acc_cnt(sy_reads', sy_last)
  /\ UNCHANGED sy_last

\* ------------------------------------------------------------------------
\* DeviceLocator: discover_fpga_address
\* ------------------------------------------------------------------------
FPGA_IP == "169.254.2.181"

FallbackHostnames == <<"rfsoc", "localhost.localdomain", "localhost">>

\* hostname_hint values a caller may pass ("" is falsy: nothing is prepended)
Hints == {"", "rfsoc", "localhost", "fpga", "bad..name"}

\* addresses a hostname may resolve to
ResolvedIPs == {"127.0.0.1", "10.0.0.5"}

\* a hostname the idna codec rejects: gethostbyname raises UnicodeError,
\* which is not a socket.gaierror
Malformed(h) == h = "bad..name"

\* list(dict.fromkeys(xs)): first occurrences, order kept
RECURSIVE Dedup(_)
Dedup(xs) ==
  IF xs = <<>> THEN <<>>
  ELSE LET init == Dedup(SubSeq(xs, 1, Len(xs) - 1))
           x    == xs[Len(xs)]
       IN IF \E k \in 1 .. Len(init) : init[k] = x THEN init ELSE Append(init, x)

\* mutant: the list is used as built, without removing duplicates
HostnamesToTry_nodedup(hint) ==
  (IF hint # "" THEN <<hint>> ELSE <<>>) \o FallbackHostnames

\* hostnames_to_try: the hint when it is truthy, the common hostnames, then
\* list(dict.fromkeys(...))
HostnamesToTry(hint) ==
  Dedup((IF hint # "" THEN <<hint>> ELSE <<>>) \o FallbackHostnames)

\* mutant: a failed hostname leaves method 1 and skips the hardcoded address
NextHost_skip(i, nhosts) == [pc |-> "m3", i |-> i + 1]

\* the `for hostname in hostnames_to_try` loop moving on after hostname i:
\* the next hostname, or method 2 after the last one
NextHost(i, nhosts) ==
  IF i < nhosts THEN [pc |-> "m1", i |-> i + 1] ELSE [pc |-> "m2", i |-> i + 1]

\* mutant: the result of the connect test is ignored
OnConnect_ignore(ok, addr, next) == [pc |-> next, ret |-> None]

\* `socket.create_connection(...); return addr` inside try/except OSError:
\* return at once on success, fall through to `next` on failure
OnConnect(ok, addr, next) ==
  IF ok THEN [pc |-> "returned", ret |-> addr] ELSE [pc |-> next, ret |-> None]

Entry(m, k, h, a, ok) ==
  [method |-> m, kind |-> k, host |-> h, addr |-> a, ok |-> ok]

\* outputs of `ip link show`, as interface names in order
LinkOutputs == {<<"lo">>, <<"lo", "eth0">>, <<"lo", "eth0", "docker0", "wlan0">>}

IsDocker(iface) == iface \in {"docker0"}

\* `[iface for _, iface in interfaces if iface != 'lo' and not iface.startswith('docker')]`
FilterIfaces(raw) == SelectSeq(raw, LAMBDA x : x # "lo" /\ ~IsDocker(x))

\* fe80:: neighbours the table may list for an interface
NeighMatches == {<<>>, <<"fe80::1">>, <<"fe80::1", "fe80::2">>}

\* socket.create_connection((ipv6_addr, 7147, 0, iface), timeout): the
\* library unpacks `host, port = address`, so a 4-tuple raises ValueError
\* before any socket is opened.
ScopedConnect(addr, iface) == "ValueError"

\* mutant: the first neighbour listed is returned without a connect test
TryCandidates_untested(matches, iface) ==
  IF matches = <<>> THEN [entries |-> <<>>, ret |-> None]
  ELSE [entries |-> <<Entry(3, "connect", iface, Head(matches), FALSE)>>,
        ret |-> Head(matches)]

\* the `for ipv6_addr in matches` loop: return the first candidate whose
\* connect succeeds; timeout / refused / OSError / TypeError continue with the
\* next candidate; any other exception leaves the loop (except Exception of
\* the interface loop).
RECURSIVE TryCandidates(_, _)
TryCandidates(matches, iface) ==
  IF matches = <<>> THEN [entries |-> <<>>, ret |-> None]
  ELSE LET a   == Head(matches)
           out == ScopedConnect(a, iface)
       IN CASE out = "ok" ->
                 [entries |-> <<Entry(3, "connect", iface, a, TRUE)>>, ret |-> a]
            [] out \in {"timeout", "refused", "OSError", "TypeError"} ->
                 LET r == TryCandidates(Tail(matches), iface)
                 IN [entries |-> <<Entry(3, "connect", iface, a, FALSE)>> \o r.entries,
                     ret |-> r.ret]
            [] OTHER ->
                 [entries |-> <<Entry(3, "connect", iface, a, FALSE)>>, ret |-> None]

InitLocate ==
  /\ lc_pc = "m1"
  /\ lc_hint \in Hints
  /\ lc_hosts = HostnamesToTry(lc_hint)
  /\ lc_i = 1
  /\ lc_ifaces = <<>>
  /\ lc_j = 1
  /\ lc_log = <<>>
  /\ lc_ret = None

IdleLocate ==
  /\ lc_pc = "idle"
  /\ lc_hint = ""
  /\ lc_hosts = <<>>
  /\ lc_i = 1
  /\ lc_ifaces = <<>>
  /\ lc_j = 1
  /\ lc_log = <<>>
  /\ lc_ret = None

\* Method 1, one iteration of the hostname loop
LocHostname ==
  /\ lc_pc = "m1"
  /\ LET h    == lc_hosts[lc_i]
         next == NextHost(lc_i, Len(lc_hosts))
     IN \/ \* gethostbyname raises something that is not gaierror
           /\ Malformed(h)
           /\ lc_log' = Append(lc_log, Entry(1, "resolve", h, None, FALSE))
           /\ lc_pc' = "raised"
           /\ UNCHANGED <<lc_i, lc_ret>>
        \/ \* socket.gaierror: could not resolve
           /\ ~Malformed(h)
           /\ lc_log' = Append(lc_log, Entry(1, "resolve", h, None, FALSE))
           /\ lc_pc' = next.pc
           /\ lc_i' = next.i
           /\ UNCHANGED lc_ret
        \/ \* resolved: connectivity test on the resolved address
           /\ ~Malformed(h)
           /\ \E ip \in ResolvedIPs, ok \in BOOLEAN :
                LET r == OnConnect(ok, ip, next.pc)
                IN /\ lc_log' = lc_log \o <<Entry(1, "resolve", h, ip, TRUE),
                                            Entry(1, "connect", h, ip, ok)>>
                   /\ lc_pc' = r.pc
                   /\ lc_ret' = r.ret
                   /\ lc_i' = IF r.pc = "returned" THEN lc_i ELSE next.i
  /\ UNCHANGED <<lc_hint, lc_hosts, lc_ifaces, lc_j>>

\* Method 2, the hardcoded address
LocHardcoded ==
  /\ lc_pc = "m2"
  /\ \E ok \in BOOLEAN :
       LET r == OnConnect(ok, FPGA_IP, "m3")
       IN /\ lc_log' = Append(lc_log, Entry(2, "connect", None, FPGA_IP, ok))
          /\ lc_pc' = r.pc
          /\ lc_ret' = r.ret
  /\ UNCHANGED <<lc_hint, lc_hosts, lc_i, lc_ifaces, lc_j>>

\* Method 3, `ip link show` and the interface filter
LocLinks ==
  /\ lc_pc = "m3"
  /\ \/ \* subprocess.run raises: outer except, return None
        /\ lc_pc' = "returned"
        /\ UNCHANGED lc_ifaces
     \/ \E raw \in LinkOutputs :
          /\ lc_ifaces' = FilterIfaces(raw)
          /\ lc_pc' = IF lc_ifaces' = <<>> THEN "returned" ELSE "m3_iface"
  /\ lc_j' = 1
  /\ lc_ret' = None
  /\ UNCHANGED <<lc_hint, lc_hosts, lc_i, lc_log>>

\* Method 3, one iteration of the interface loop
LocIface ==
  /\ lc_pc = "m3_iface"
  /\ LET iface == lc_ifaces[lc_j]
         after == IF lc_j < Len(lc_ifaces) THEN "m3_iface" ELSE "returned"
     IN \/ \* ping or `ip neigh show` raises: except Exception, continue
           /\ lc_pc' = after
           /\ lc_ret' = None
           /\ UNCHANGED lc_log
        \/ \E matches \in NeighMatches :
             LET r == TryCandidates(matches, iface)
             IN /\ lc_log' = lc_log \o r.entries
                /\ lc_ret' = r.ret
                /\ lc_pc' = IF r.ret # None THEN "returned" ELSE after
  /\ lc_j' = lc_j + 1
  /\ UNCHANGED <<lc_hint, lc_hosts, lc_i, lc_ifaces>>


\* ------------------------------------------------------------------------
\* DeviceInitializer: initialize_fpga
\* ------------------------------------------------------------------------
max_retries == 5
retry_delay == 5
REBOOT_WAIT == 180
CLOCK_SETTLE == 15

\* what one discover_fpga_address() call (default hint) may return
LocateResults == {None, FPGA_IP} \cup ResolvedIPs

\* the statements of the try block, in order; `binds` is the local the
\* statement assigns, `raises` whether it can raise (get_adc_status catches
\* every Exception itself)
BringUpSteps ==
  << [name |-> "CasperFpga",      binds |-> "fpga", raises |-> TRUE],
     [name |-> "upload_program",  binds |-> "",     raises |-> TRUE],
     [name |-> "adcs_rfdc",       binds |-> "adc",  raises |-> TRUE],
     [name |-> "adc_init",        binds |-> "",     raises |-> TRUE],
     [name |-> "get_adc_status",  binds |-> "",     raises |-> FALSE],
     [name |-> "show_clk_files",  binds |-> "",     raises |-> TRUE],
     [name |-> "progpll_lmk",     binds |-> "",     raises |-> TRUE],
     [name |-> "progpll_lmx",     binds |-> "",     raises |-> TRUE] >>

Ev(e, k, v) == [ev |-> e, k |-> k, val |-> v]

Rebooted == \E i \in 1 .. Len(in_log) : in_log[i].ev = "reboot"

\* mutant: the loop sleeps after every failed attempt, the last one included
RetrySleeps_always(attempt) == TRUE

\* `if attempt < max_retries - 1: time.sleep(retry_delay)`
RetrySleeps(attempt) == attempt < max_retries - 1

\* mutant: a found address does not leave the loop
LoopEnds_exhaust(addr, attempt) == attempt = max_retries - 1

\* the `for attempt in range(max_retries)` loop ends after this iteration:
\* `break` on a truthy address, or the range is exhausted
LoopEnds(addr, attempt) == addr # None \/ attempt = max_retries - 1

\* `time.sleep(180); os.system('sudo reboot')`: os.system returns to the
\* caller, the statements after it run until the host goes down
Escalate(lg, why) ==
  lg \o <<Ev("sleep", REBOOT_WAIT, why), Ev("reboot", 0, why)>>

InitBringUp ==
  /\ in_pc = "i_start"
  /\ in_attempt = 0
  /\ in_addr = None
  /\ in_fpga = FALSE
  /\ in_adc = FALSE
  /\ in_step = 1
  /\ in_log = <<>>

IdleBringUp ==
  /\ in_pc = "idle"
  /\ in_attempt = 0
  /\ in_addr = None
  /\ in_fpga = FALSE
  /\ in_adc = FALSE
  /\ in_step = 1
  /\ in_log = <<>>

\* `rcal.gpio_switch(0, 2)`
InStart ==
  /\ in_pc = "i_start"
  /\ in_log' = Append(in_log, Ev("gpio_switch", 0, ""))
  /\ in_pc' = "i_discover"
  /\ UNCHANGED <<in_attempt, in_addr, in_fpga, in_adc, in_step>>

\* one iteration of the discovery loop
InDiscover ==
  /\ in_pc = "i_discover"
  /\ \E a \in LocateResults :
       /\ in_addr' = a
       /\ in_log' = Append(in_log, Ev("locate", in_attempt, a)) \o
                      (IF a = None /\ RetrySleeps(in_attempt)
                       THEN <<Ev("sleep", retry_delay, "retry")>> ELSE <<>>)
       /\ IF LoopEnds(a, in_attempt)
          THEN in_pc' = "i_check" /\ in_attempt' = in_attempt
          ELSE in_pc' = "i_discover" /\ in_attempt' = in_attempt + 1
  /\ UNCHANGED <<in_fpga, in_adc, in_step>>

\* `if not fpga_addr:` escalation after the loop
InCheck ==
  /\ in_pc = "i_check"
  /\ in_log' = IF in_addr = None THEN Escalate(in_log, "discovery") ELSE in_log
  /\ in_pc' = "i_bringup"
  /\ UNCHANGED <<in_attempt, in_addr, in_fpga, in_adc, in_step>>

\* one statement of the try block: it succeeds (binding its local) or raises
\* into `except Exception`, which escalates and falls out of the try
InBringUpStep ==
  /\ in_pc = "i_bringup"
  /\ LET s == BringUpSteps[in_step]
     IN \/ /\ in_log' = Append(in_log, Ev("step", in_step, s.name))
           /\ in_fpga' = (in_fpga \/ s.binds = "fpga")
           /\ in_adc' = (in_adc \/ s.binds = "adc")
           /\ IF in_step < Len(BringUpSteps)
              THEN in_step' = in_step + 1 /\ in_pc' = "i_bringup"
              ELSE in_step' = in_step /\ in_pc' = "i_settle"
        \/ /\ s.raises
           /\ in_log' = Escalate(Append(in_log, Ev("raise", in_step, s.name)), "bringup")
           /\ in_pc' = "i_settle"
           /\ UNCHANGED <<in_fpga, in_adc, in_step>>
  /\ UNCHANGED <<in_attempt, in_addr>>

\* `time.sleep(15)` and `fpga.write_int('acc_len', ACC_LENGTH)`: the name
\* `fpga` is unbound when CasperFpga(...) raised (UnboundLocalError)
InConfigure ==
  /\ in_pc = "i_settle"
  /\ \/ /\ in_fpga
        /\ in_log' = in_log \o <<Ev("sleep", CLOCK_SETTLE, "clocks"),
                                 Ev("write_int", 0, "acc_len")>>
        /\ in_pc' = "i_return"
     \/ /\ in_fpga
        /\ in_log' = in_log \o <<Ev("sleep", CLOCK_SETTLE, "clocks"),
                                 Ev("raise", 0, "write_int")>>
        /\ in_pc' = "i_raised"
     \/ /\ ~in_fpga
        /\ in_log' = in_log \o <<Ev("sleep", CLOCK_SETTLE, "clocks"),
                                 Ev("raise", 0, "UnboundLocalError")>>
        /\ in_pc' = "i_raised"
  /\ UNCHANGED <<in_attempt, in_addr, in_fpga, in_adc, in_step>>

\* `return fpga, adc`: `adc` is unbound when the try block raised before
\* `adc = fpga.adcs['rfdc']` completed
InReturn ==
  /\ in_pc = "i_return"
  /\ IF in_adc
     THEN in_log' = Append(in_log, Ev("return", 0, "handle")) /\ in_pc' = "i_returned"
     ELSE in_log' = Append(in_log, Ev("raise", 0, "UnboundLocalError")) /\ in_pc' = "i_raised"
  /\ UNCHANGED <<in_attempt, in_addr, in_fpga, in_adc, in_step>>

\* the host goes down at some point after a reboot request was accepted
InHostDown ==
  /\ Rebooted
  /\ in_pc \in {"i_bringup", "i_settle", "i_return"}
  /\ in_pc' = "i_killed"
  /\ UNCHANGED <<in_attempt, in_addr, in_fpga, in_adc, in_step, in_log>>

\* ------------------------------------------------------------------------
\* SpectrumReader: get_vacc_data
\* ------------------------------------------------------------------------
MaxNfft == 9         \* NFFT is drawn from 0..MaxNfft
MaxChan == 3         \* NCHANNELS is drawn from 1..MaxChan
MaxHwTicks == 1      \* accumulations the device completes during a run
MaxCalls == 2        \* get_vacc_data calls of one harness run

Words == {0, 7}      \* words an arbitrary channel memory may hold
RdCounts == {3, 8}   \* values the acc_cnt register may return

MANT_BITS == 53      \* significand of the float64 rows of np.zeros

RECURSIVE BitLen(_)
BitLen(v) == IF v = 0 THEN 0 ELSE 1 + BitLen(v \div 2)

\* storing the unsigned integer v into a float64 array: exact up to 53
\* significant bits, round-to-nearest-even beyond
Float64(v) ==
  IF BitLen(v) <= MANT_BITS THEN v
  ELSE LET sh   == BitLen(v) - MANT_BITS
           q    == v \div (2 ^ sh)
           rem  == v % (2 ^ sh)
           half == 2 ^ (sh - 1)
           up   == rem > half \/ (rem = half /\ q % 2 = 1)
       IN (IF up THEN q + 1 ELSE q) * (2 ^ sh)

\* samples_per_channel = (NFFT // 2) // NCHANNELS
half_nfft(nfft) == nfft \div 2
samples_per_channel(nfft, C) == half_nfft(nfft) \div C

\* `channel_data[channel_idx, :] = struct.unpack(..., raw_bytes)`
StoreRow(block) == [k \in 1 .. Len(block) |-> Float64(block[k])]

\* mutant: the rows are concatenated channel after channel
Interleave_concat(raw, chunk, C) ==
  [k \in 1 .. chunk * C |-> raw[((k - 1) \div chunk) + 1][((k - 1) % chunk) + 1]]

RECURSIVE InterleaveLoop(_, _, _, _, _, _)
\* the nested loops `for sample_idx ...: for channel_idx ...: append(...)`
\* from position (sample_idx, channel_idx), 0-based, with `acc` built so far
InterleaveLoop(raw, chunk, C, sample_idx, channel_idx, acc) ==
  IF sample_idx >= chunk THEN acc
  ELSE IF channel_idx >= C
       THEN InterleaveLoop(raw, chunk, C, sample_idx + 1, 0, acc)
       ELSE InterleaveLoop(raw, chunk, C, sample_idx, channel_idx + 1,
                           Append(acc, raw[channel_idx + 1][sample_idx + 1]))

Interleave(raw, chunk, C) == InterleaveLoop(raw, chunk, C, 0, 0, <<>>)

\* mutant: the memories are numbered from q0
MemName_zero(channel_idx) == <<"q", channel_idx>>

\* name of the memory of channel_idx (0-based): 'q{:d}'.format(channel_idx + 1)
MemName(channel_idx) == <<"q", channel_idx + 1>>
CntName == <<"acc_cnt", 0>>

\* contents a block read of `chunk` words of channel c (0-based) may return
SynthBlock(c, chunk) == [k \in 1 .. chunk |-> c * 1000 + (k - 1)]
Blocks(c, chunk, synth) ==
  IF synth THEN {SynthBlock(c, chunk)} ELSE [1 .. chunk -> Words]

Zeros(C, chunk) == [c \in 1 .. C |-> [k \in 1 .. chunk |-> 0]]

\* mutant: the rows are laid one after the other, channel by channel
RECURSIVE interleave_q_rows(_, _, _, _)
interleave_q_rows(raw, chunk, C, k) ==
  IF k >= chunk * C THEN <<>>
  ELSE <<raw[(k \div chunk) + 1][(k % chunk) + 1]>>
         \o interleave_q_rows(raw, chunk, C, k + 1)

\* run_spectrometer.get_vacc_data, the interleaving loops:
\* `for i in range(chunk): for j in range(NCHANNELS): interleave_q.append(raw[j,i])`
\* from flat position k = i * NCHANNELS + j on
RECURSIVE interleave_q(_, _, _, _)
interleave_q(raw, chunk, C, k) ==
  IF k >= chunk * C THEN <<>>
  ELSE <<raw[(k % C) + 1][(k \div C) + 1]>> \o interleave_q(raw, chunk, C, k + 1)

InitRead ==
  /\ rd_nfft \in 0 .. MaxNfft
  /\ rd_C \in 1 .. MaxChan
  /\ rd_synth \in BOOLEAN
  /\ rd_pc = "r_call"
  /\ rd_i = 0
  /\ rd_raw = <<>>
  /\ rd_log = <<>>
  /\ rd_out = <<>>
  /\ rd_calls = 0
  /\ rd_hw \in RdCounts
  /\ rd_ticks = 0

IdleRead ==
  /\ rd_nfft = 0
  /\ rd_C = 1
  /\ rd_synth = FALSE
  /\ rd_pc = "idle"
  /\ rd_i = 0
  /\ rd_raw = <<>>
  /\ rd_log = <<>>
  /\ rd_out = <<>>
  /\ rd_calls = 0
  /\ rd_hw = 0
  /\ rd_ticks = 0

\* the device completes an accumulation, at any moment of a call or between
\* two calls: the counter advances and the channel memories are rewritten
RdTick ==
  /\ rd_pc # "idle"
  /\ rd_ticks < MaxHwTicks
  /\ rd_hw' = rd_hw + 1
  /\ rd_ticks' = rd_ticks + 1
  /\ UNCHANGED <<rd_nfft, rd_C, rd_synth, rd_pc, rd_i, rd_raw, rd_log, rd_out,
                 rd_calls>>

\* entry of get_vacc_data: the locals are created afresh
RdCall ==
  /\ rd_pc = "r_call"
  /\ rd_calls < MaxCalls
  /\ rd_raw' = Zeros(rd_C, samples_per_channel(rd_nfft, rd_C))
  /\ rd_log' = <<>>
  /\ rd_i' = 0
  /\ rd_pc' = "r_block"
  /\ UNCHANGED <<rd_nfft, rd_C, rd_synth, rd_out, rd_calls, rd_hw, rd_ticks>>

\* one iteration of `for channel_idx in range(NCHANNELS)`: a block read of
\* samples_per_channel * 8 bytes, decoded and stored into its row
RdBlock ==
  /\ rd_pc = "r_block"
  /\ \E block \in Blocks(rd_i, samples_per_channel(rd_nfft, rd_C), rd_synth) :
       /\ rd_raw' = [rd_raw EXCEPT ![rd_i + 1] = StoreRow(block)]
       /\ rd_log' = Append(rd_log, [reg |-> MemName(rd_i), val |-> block, acc |-> rd_hw])
  /\ rd_i' = rd_i + 1
  /\ rd_pc' = IF rd_i + 1 < rd_C THEN "r_block" ELSE "r_count"
  /\ UNCHANGED <<rd_nfft, rd_C, rd_synth, rd_out, rd_calls, rd_hw, rd_ticks>>

\* the interleaving loops and `return interleaved_spectrum, fpga.read_uint('acc_cnt')`
RdReturn ==
  /\ rd_pc = "r_count"
  /\ LET cnt == rd_hw
     IN /\ rd_out' = <<[spectrum |-> Interleave(rd_raw, samples_per_channel(rd_nfft, rd_C), rd_C),
                        cnt |-> cnt]>>
        /\ rd_log' = Append(rd_log, [reg |-> CntName, val |-> <<cnt>>, acc |-> rd_hw])
  /\ rd_calls' = rd_calls + 1
  /\ rd_pc' = "r_call"
  /\ UNCHANGED <<rd_nfft, rd_C, rd_synth, rd_i, rd_raw, rd_hw, rd_ticks>>

\* ------------------------------------------------------------------------
\* Sequencer: bounds and configuration
\* ------------------------------------------------------------------------
MaxSample  == 1      \* a spectrum is one sample drawn from 1..MaxSample
SeqReads   == 2      \* register reads per print_acc_cnt call in the sequencer
DayLen     == 4      \* seconds per day of the model clock (86400, scaled)
MaxElapsed == 11     \* half seconds the run may last after bring-up
MaxSlack   == 1      \* half seconds spent beyond the sleeps, over the run
MaxCal     == 2      \* CAL_ACC_N ranges over 0..MaxCal
MaxFb      == 1      \* FB_N ranges over 0..MaxFb
MaxAnt     == 2      \* ANT_ACC_N ranges over 0..MaxAnt

SINGLE_N   == 100    \* `for n in range(100)`
N_AVG      == 3      \* `while len(spectra) < 3`

\* sleeps, in half seconds
InitDelayTicks   == 4    \* rcal.gpio_switch(0, 2)
ClockSettleTicks == 30   \* time.sleep(15)
SwitchDelayTicks == 1    \* SWITCH_DELAY = ACC_LENGTH * 3 / 100000 = 0.525 s

StartTicks == InitDelayTicks + ClockSettleTicks + SwitchDelayTicks
Limit == StartTicks + MaxElapsed

\* values the acc_cnt register returns to the sequencer: any of them at any
\* read (the counter may advance, stall, wrap or restart between two reads)
SeqCounts == {0, 1, 2}
Samples   == 1 .. MaxSample

Sec(t)      == t \div 2
HHMMSS(t)   == Sec(t) % DayLen        \* strftime('%H%M%S')
YYYYMMDD(t) == Sec(t) \div DayLen     \* strftime('%Y%m%d')

\* ------------------------------------------------------------------------
\* Switch driver: rcal.gpio_switch
\* ------------------------------------------------------------------------
Rejected(s) == (s < 0 \/ s > 7) /\ s # 10

\* `idx & 2^k` is non-zero
Bit(idx, k) == (idx \div (2 ^ k)) % 2

\* mutant: a line is switched on when its bit is set and otherwise left as
\* it was (the `else: off()` branches are missing)
gpio_switch_onlyon(s, before) ==
  IF Rejected(s) THEN before
  ELSE LET idx == 7 - s
       IN <<IF Bit(idx, 0) = 1 THEN 1 ELSE before[1],
            IF Bit(idx, 1) = 1 THEN 1 ELSE before[2],
            IF Bit(idx, 2) = 1 THEN 1 ELSE before[3]>>

\* mutant: the state number is written to the lines without `idx = 7 - n`
gpio_switch_direct(s, before) ==
  IF Rejected(s) THEN before
  ELSE <<Bit(s, 0), Bit(s, 1), Bit(s, 2)>>

\* the three lines after gpio_switch(s, t), given the lines before
gpio_switch(s, before) ==
  IF Rejected(s) THEN before
  ELSE LET idx == 7 - s IN <<Bit(idx, 0), Bit(idx, 1), Bit(idx, 2)>>

\* mutant: the settle delay is applied before the argument is looked at
SwitchSleep_always(s, ticks) == ticks

\* time.sleep(t) is reached only for an accepted state
SwitchSleep(s, ticks) == IF Rejected(s) THEN 0 ELSE ticks

InvalidIndex == "Invalid calibration index. Please choose a number between 0 and 7, or 10."

\* the return value: the message for a rejected state, else None (the
\* function falls off its end)
SwitchReturn(s) == IF Rejected(s) THEN InvalidIndex ELSE None

\* arguments and settle delays the harness calls gpio_switch with
SwitchArgs == (0 .. 7) \cup {-2, -1, 8, 9, 10, 11}
SwitchDelays == {1, 4}
Patterns == {<<a, b, c>> : a \in {0, 1}, b \in {0, 1}, c \in {0, 1}}

InitSwitch ==
  /\ sw_pins \in Patterns
  /\ sw_prev = sw_pins
  /\ sw_n = <<>>
  /\ sw_slept = 0
  /\ sw_ret = None

IdleSwitch ==
  /\ sw_pins = <<0, 0, 0>>
  /\ sw_prev = sw_pins
  /\ sw_n = <<>>
  /\ sw_slept = 0
  /\ sw_ret = None

\* one call gpio_switch(s, d)
SwitchCall ==
  \E s \in SwitchArgs, d \in SwitchDelays :
    /\ sw_prev' = sw_pins
    /\ sw_pins' = gpio_switch(s, sw_pins)
    /\ sw_n' = <<s>>
    /\ sw_slept' = SwitchSleep(s, d)
    /\ sw_ret' = SwitchReturn(s)

\* ------------------------------------------------------------------------
\* print_acc_cnt (run_spectrometer.py)
\* ------------------------------------------------------------------------
RECURSIVE PrintPollLoop(_, _, _, _)
PrintPollLoop(acc, last_acc_n, c, rest) ==
  IF acc = last_acc_n
  THEN IF rest = <<>>
       THEN [returned |-> FALSE, acc_n |-> acc, c |-> c, unread |-> 0]
       ELSE PrintPollLoop(Head(rest), last_acc_n, c + 1, Tail(rest))
  ELSE [returned |-> TRUE, acc_n |-> acc, c |-> c, unread |-> Len(rest)]

\* mutant: the first read never becomes the baseline of the poll
print_acc_cnt_nobase(reads, last_acc_n) ==
  PrintPollLoop(reads[1], last_acc_n, 1, Tail(reads))

print_acc_cnt(reads, last_acc_n) ==
  PrintPollLoop(reads[1], IF reads[1] > last_acc_n THEN reads[1] ELSE last_acc_n,
                1, Tail(reads))

ReadSeqs == UNION {[1 .. k -> SeqCounts] : k \in 1 .. SeqReads}

\* the values print_acc_cnt(fpga, last) can return, over the register read
\* sequences that make it return
AwaitResults(last) ==
  {print_acc_cnt(rs, last).acc_n :
     rs \in {r \in ReadSeqs : LET o == print_acc_cnt(r, last)
                              IN o.returned /\ o.unread = 0}}

\* ------------------------------------------------------------------------
\* save_all_data helpers
\* ------------------------------------------------------------------------
HasKey(d, k) == \E i \in 1 .. Len(d) : d[i].id = k

\* mutant: the spectra are appended to a list instead of keyed by id
DictPut_append(d, k, v) == Append(d, [id |-> k, s |-> v])

\* `spectra[cnt] = s` on an insertion-ordered dict
DictPut(d, k, v) ==
  IF HasKey(d, k)
  THEN [i \in 1 .. Len(d) |-> IF d[i].id = k THEN [id |-> k, s |-> v] ELSE d[i]]
  ELSE Append(d, [id |-> k, s |-> v])

\* sum_spectrum over `[spectra[key] for key in spectra.keys()]`
RECURSIVE sum_spectrum(_)
sum_spectrum(d) == IF d = <<>> THEN 0 ELSE d[1].s + sum_spectrum(Tail(d))

\* mutant: the accumulation label is never written into the filename
write_filename_bare(state, label, t) ==
  [date |-> YYYYMMDD(t), time |-> HHMMSS(t), state |-> state, suffix |-> <<>>]

\* write_filename(state, acc_n) at clock value t; `label` is the acc_n
\* argument, cnt in per-accumulation mode and 'average' in averaged mode:
\* `f"{basename}_{acc_n}" if SAVE_EACH_ACC else basename`
write_filename(state, label, t) ==
  [date |-> YYYYMMDD(t), time |-> HHMMSS(t), state |-> state,
   suffix |-> IF cfg.SAVE_EACH_ACC THEN <<label>> ELSE <<>>]

\* the dictionary save_all_data builds and np.save persists
DataDict(switch_value, spectrum) ==
  [switch_state |-> switch_value, spectrum |-> spectrum]

\* ------------------------------------------------------------------------
\* SessionStore: save_data, get_sub_directory
\* ------------------------------------------------------------------------

\* `if cycle_count >= 1 or current_sub_dir_path is None`
SelectsSubdir(cc, sub) == cc >= 1 \/ sub = NoDir

\* mutant: the cycle count is not reset after a subdirectory is selected
ResetCycleCount_keep(cc) == cc

\* `cycle_count = 0  # Reset cycle count after creating a new subdirectory`
ResetCycleCount(cc) == 0

\* get_sub_directory(parent_dir_path, sub_dir_count) at clock value t, with
\* `existing` the subdirectories on the storage
get_sub_directory(parent, count, t, existing) ==
  LET path == <<parent, HHMMSS(t)>>
  IN [path |-> path,
      count |-> IF path \in existing THEN count ELSE count + 1,
      existing |-> existing \cup {path}]

\* the parent directory of the run: run_directory or filename.split('_')[0]
ParentDirName(run_directory, filename) ==
  IF run_directory # None THEN run_directory ELSE filename.date

\* save_data(dataDict, filename) on the session `s` at clock value t
save_data(s, filename, run_directory, t, existing) ==
  LET parent == ParentDirName(run_directory, filename)
  IN IF SelectsSubdir(s.cycle_count, s.current_sub_dir_path)
     THEN LET g == get_sub_directory(parent, s.sub_dir_count, t, existing)
          IN [cycle_count |-> ResetCycleCount(s.cycle_count),
              sub_dir_count |-> g.count,
              current_parent_dir |-> <<parent>>,
              current_sub_dir_path |-> g.path,
              existing |-> g.existing,
              selected |-> TRUE,
              file_dir |-> g.path]
     ELSE [cycle_count |-> s.cycle_count,
           sub_dir_count |-> s.sub_dir_count,
           current_parent_dir |-> s.current_parent_dir,
           current_sub_dir_path |-> s.current_sub_dir_path,
           existing |-> existing,
           selected |-> FALSE,
           file_dir |-> s.current_sub_dir_path]

Session ==
  [cycle_count |-> cycle_count, sub_dir_count |-> sub_dir_count,
   current_parent_dir |-> current_parent_dir,
   current_sub_dir_path |-> current_sub_dir_path]

\* the bookkeeping a save call does when saving is enabled, on the reference
\* session (cycle counter, subdirectory set or not)
RefSave(r) ==
  IF SelectsSubdir(r.cycle_count, IF r.set THEN <<"set">> ELSE NoDir)
  THEN [cycle_count |-> ResetCycleCount(r.cycle_count), set |-> TRUE]
  ELSE r


\* ------------------------------------------------------------------------
\* CalibrationSequencer: main
\* ------------------------------------------------------------------------
\* `horizon` is the model's view of the calendar, not a program setting:
\* "bounded" runs stop after MaxElapsed, "cyclic" runs go on forever over a
\* calendar of one day that repeats
Cfg(is, rd, sd, each, cal, fb, ant) ==
  [input_state |-> is, run_directory |-> rd, SAVE_DATA |-> sd,
   SAVE_EACH_ACC |-> each, CAL_ACC_N |-> cal, FB_N |-> fb, ANT_ACC_N |-> ant,
   horizon |-> "bounded"]

Cyclic(c) == [c EXCEPT !.horizon = "cyclic"]

\* --state values of the single-state runs of the model (`type=int`: any
\* integer is accepted): two calibration states and one gpio_switch rejects
SingleStates == {0, 2, 9}

\* the runs of the model: every count combination in per-accumulation mode,
\* the averaged mode with one record per state under each saving option and
\* with the counts of the end-to-end example (2, 1, 2), single-state runs
Configs ==
  {Cfg(NoState, None, TRUE, TRUE, c, f, a) :
     c \in 0 .. MaxCal, f \in 0 .. MaxFb, a \in 0 .. MaxAnt}
  \cup {Cfg(NoState, rd, sd, FALSE, 1, 0, 1) : rd \in {None, "run"}, sd \in BOOLEAN}
  \cup {Cfg(NoState, None, TRUE, FALSE, 2, 1, 2)}
  \cup {Cfg(<<is>>, None, TRUE, TRUE, 1, 0, 1) : is \in SingleStates}

\* the runs that are followed forever: a sweep in each save mode and a
\* single-state run
LiveConfigs ==
  {Cyclic(Cfg(NoState, None, TRUE, each, 1, 0, 1)) : each \in BOOLEAN}
  \cup {Cyclic(Cfg(<<2>>, None, TRUE, TRUE, 1, 0, 1))}

Single == cfg.input_state # NoState

CalTicks == 2 * DayLen

\* the clock after d more half seconds
Advance(t, d) == IF cfg.horizon = "cyclic" THEN (t + d) % CalTicks ELSE t + d

\* spectra a get_vacc_data call of the run may return; the runs followed
\* forever read one and the same spectrum every time
Spectra == IF cfg.horizon = "cyclic" THEN {1} ELSE Samples

\* the run is still within the horizon of the model at clock value t
InTime(t) == cfg.horizon = "cyclic" \/ t <= StartTicks + MaxElapsed

\* mutant: state 2 collects no extra filter-bank records
SpectraN_nofb(s, c) ==
  IF c.input_state # NoState THEN SINGLE_N
  ELSE IF s = 0 THEN c.ANT_ACC_N
  ELSE c.CAL_ACC_N

\* spectra_n of the state the loop is at
SpectraN(s, c) ==
  IF c.input_state # NoState THEN SINGLE_N
  ELSE IF s = 0 THEN c.ANT_ACC_N
  ELSE IF s = 2 THEN c.CAL_ACC_N + c.FB_N
  ELSE c.CAL_ACC_N

\* mutant: the sweep leaves out the antenna state
AfterState_noant(s, single) ==
  IF single THEN [pc |-> "exited", st |-> s]
  ELSE IF s = 7 THEN [pc |-> "cycle_end", st |-> s]
  ELSE [pc |-> "switch", st |-> s + 1]

\* mutant: single-state mode falls through to the cycle counter, no `break`
AfterState_nobreak(s, single) ==
  IF single \/ s = 0 THEN [pc |-> "cycle_end", st |-> s]
  ELSE IF s = 7 THEN [pc |-> "switch", st |-> 0]
  ELSE [pc |-> "switch", st |-> s + 1]

\* mutant: the `break` is taken after the antenna state of a sweep as well
AfterState_break(s, single) ==
  IF single \/ s = 0 THEN [pc |-> "exited", st |-> s]
  ELSE IF s = 7 THEN [pc |-> "switch", st |-> 0]
  ELSE [pc |-> "switch", st |-> s + 1]

\* where main goes once the records of state s are collected:
\* `break` in single-state mode; `for s in range(1,8)`, then state 0, then
\* `cycle_count += 1`
AfterState(s, single) ==
  IF single THEN [pc |-> "exited", st |-> s]
  ELSE IF s = 0 THEN [pc |-> "cycle_end", st |-> s]
  ELSE IF s = 7 THEN [pc |-> "switch", st |-> 0]
  ELSE [pc |-> "switch", st |-> s + 1]


NoRec ==
  [valid |-> FALSE, state |-> 0, contrib |-> <<>>, spectrum |-> 0,
   average |-> FALSE, dup |-> FALSE, filename |-> write_filename(0, 0, 0),
   dataDict |-> DataDict(0, 0), saved |-> FALSE]

NoSel ==
  [called |-> FALSE, selected |-> FALSE, pendingBefore |-> FALSE,
   before |-> NoDir, after |-> NoDir, fresh |-> FALSE, file_dir |-> NoDir]

InitSeqOf(configs, extra) ==
  /\ cfg \in configs
  /\ pc = "start"
  /\ st = 0
  /\ n = 0
  /\ acc_n = 0
  /\ spectra = <<>>
  /\ cycle_count = 0
  /\ sub_dir_count = 0
  /\ current_parent_dir = <<>>
  /\ current_sub_dir_path = NoDir
  /\ pins = <<0, 0, 0>>
  /\ now = 0
  /\ subdirs = {}
  /\ lastRec = NoRec
  /\ log = <<>>
  /\ pending = FALSE
  /\ lastSel = NoSel
  /\ ref = [cycle_count |-> 0, set |-> FALSE]
  /\ dup = FALSE
  /\ slack = extra

InitSeq == InitSeqOf(Configs, MaxSlack)

InitSeqLive == InitSeqOf(LiveConfigs, 0)

IdleSeq ==
  /\ cfg = Cfg(NoState, None, TRUE, FALSE, 0, 0, 0)
  /\ pc = "idle"
  /\ st = 0
  /\ n = 0
  /\ acc_n = 0
  /\ spectra = <<>>
  /\ cycle_count = 0
  /\ sub_dir_count = 0
  /\ current_parent_dir = <<>>
  /\ current_sub_dir_path = NoDir
  /\ pins = <<0, 0, 0>>
  /\ now = 0
  /\ subdirs = {}
  /\ lastRec = NoRec
  /\ log = <<>>
  /\ pending = FALSE
  /\ lastSel = NoSel
  /\ ref = [cycle_count |-> 0, set |-> FALSE]
  /\ dup = FALSE
  /\ slack = 0

\* main up to the acquisition loop: the globals, initialize_fpga (which
\* drives the switch to state 0 and returns the handle), gpio_switch(1)
MainStart ==
  /\ pc = "start"
  /\ cycle_count' = 0
  /\ sub_dir_count' = 0
  /\ current_parent_dir' = <<>>
  /\ current_sub_dir_path' = NoDir
  /\ pins' = gpio_switch(1, gpio_switch(0, pins))
  /\ now' = Advance(now, StartTicks)
  /\ pc' = "top"
  /\ UNCHANGED <<cfg, st, n, acc_n, spectra, subdirs, lastRec, log, pending,
                 lastSel, ref, dup, slack>>

\* top of `while True`: wait_for_storage, acc_n = fpga.read_uint('acc_cnt')
CycleTop ==
  /\ pc = "top"
  /\ acc_n' \in SeqCounts
  /\ st' = IF Single THEN cfg.input_state[1] ELSE 1
  /\ n' = 0
  /\ log' = <<>>
  /\ pc' = "switch"
  /\ UNCHANGED <<cfg, spectra, cycle_count, sub_dir_count, current_parent_dir,
                 current_sub_dir_path, pins, now, subdirs, lastRec, pending,
                 lastSel, ref, dup, slack>>

\* rcal.gpio_switch(st, SWITCH_DELAY) and the choice of spectra_n
SwitchState ==
  /\ pc = "switch"
  /\ \E e \in 0 .. slack :
       /\ now' = Advance(now, SwitchSleep(st, SwitchDelayTicks) + e)
       /\ InTime(now')
       /\ slack' = slack - e
  /\ pins' = gpio_switch(st, pins)
  /\ log' = Append(log, <<"set", st>>)
  /\ n' = 0
  /\ IF SpectraN(st, cfg) > 0
     THEN /\ pc' = "collect"
          /\ st' = st
     ELSE LET nx == AfterState(st, Single)
          IN /\ pc' = nx.pc
             /\ st' = nx.st
  /\ lastRec' = NoRec
  /\ lastSel' = NoSel
  /\ UNCHANGED <<cfg, acc_n, spectra, cycle_count, sub_dir_count,
                 current_parent_dir, current_sub_dir_path, subdirs, pending,
                 ref, dup>>

\* the tail of save_all_data: the record, its filename, save_data when
\* saving is enabled; then the `for n in range(spectra_n)` loop moves on
Finish(contrib, spectrum, label, dupSeen) ==
  /\ \E e \in 0 .. slack :
       /\ now' = Advance(now, e)
       /\ InTime(now')
       /\ slack' = slack - e
  /\ LET filename == write_filename(st, label, now')
         r == save_data(Session, filename, cfg.run_directory, now', subdirs)
     IN /\ IF cfg.SAVE_DATA
           THEN /\ cycle_count' = r.cycle_count
                /\ sub_dir_count' = r.sub_dir_count
                /\ current_parent_dir' = r.current_parent_dir
                /\ current_sub_dir_path' = r.current_sub_dir_path
                /\ subdirs' = r.existing
                /\ pending' = (pending /\ ~r.selected)
                /\ lastSel' = [called |-> TRUE,
                               selected |-> r.selected,
                               pendingBefore |-> pending,
                               before |-> current_sub_dir_path,
                               after |-> r.current_sub_dir_path,
                               fresh |-> r.current_sub_dir_path \notin subdirs,
                               file_dir |-> r.file_dir]
           ELSE /\ UNCHANGED <<cycle_count, sub_dir_count, current_parent_dir,
                               current_sub_dir_path, subdirs, pending>>
                /\ lastSel' = NoSel
        /\ lastRec' = [valid |-> TRUE, state |-> st, contrib |-> contrib, spectrum |-> spectrum,
                       average |-> ~cfg.SAVE_EACH_ACC, dup |-> dupSeen,
                       filename |-> filename,
                       dataDict |-> DataDict(st, spectrum),
                       saved |-> cfg.SAVE_DATA]
  /\ ref' = RefSave(ref)
  /\ log' = Append(log, <<"rec", st>>)
  /\ spectra' = <<>>
  /\ dup' = FALSE
  /\ IF n + 1 < SpectraN(st, cfg)
     THEN /\ n' = n + 1
          /\ pc' = "collect"
          /\ st' = st
     ELSE LET nx == AfterState(st, Single)
          IN /\ n' = n + 1
             /\ pc' = nx.pc
             /\ st' = nx.st
  /\ UNCHANGED <<cfg, pins>>

\* save_all_data, averaged mode: one pass of `while len(spectra) < 3` that
\* leaves fewer than three ids in the dict
CollectMore ==
  /\ pc = "collect"
  /\ ~cfg.SAVE_EACH_ACC
  /\ \E a \in AwaitResults(acc_n), cnt \in SeqCounts, smp \in Spectra :
       LET d == DictPut(spectra, cnt, smp)
       IN /\ Len(d) < N_AVG
          /\ acc_n' = a
          /\ spectra' = d
          /\ dup' = (dup \/ HasKey(spectra, cnt))
  /\ lastRec' = NoRec
  /\ lastSel' = NoSel
  /\ UNCHANGED <<cfg, pc, st, n, cycle_count, sub_dir_count, current_parent_dir,
                 current_sub_dir_path, pins, now, subdirs, log, pending, ref,
                 slack>>

\* save_all_data, averaged mode: the pass that brings the dict to three ids,
\* then the sum and the save
CollectLast ==
  /\ pc = "collect"
  /\ ~cfg.SAVE_EACH_ACC
  /\ \E a \in AwaitResults(acc_n), cnt \in SeqCounts, smp \in Spectra :
       LET d == DictPut(spectra, cnt, smp)
       IN /\ Len(d) >= N_AVG
          /\ acc_n' = a
          /\ Finish(d, sum_spectrum(d), "average", dup \/ HasKey(spectra, cnt))

\* save_all_data, per-accumulation mode
CollectEach ==
  /\ pc = "collect"
  /\ cfg.SAVE_EACH_ACC
  /\ \E a \in AwaitResults(acc_n), cnt \in SeqCounts, smp \in Spectra :
       /\ acc_n' = a
       /\ Finish(<<[id |-> cnt, s |-> smp]>>, smp, cnt, FALSE)

\* `cycle_count += 1` after one full calibration + observation cycle
CycleEnd ==
  /\ pc = "cycle_end"
  /\ cycle_count' = cycle_count + 1
  /\ ref' = [ref EXCEPT !.cycle_count = @ + 1]
  /\ pending' = TRUE
  /\ pc' = "top"
  /\ lastRec' = NoRec
  /\ lastSel' = NoSel
  /\ UNCHANGED <<cfg, st, n, acc_n, spectra, sub_dir_count, current_parent_dir,
                 current_sub_dir_path, pins, now, subdirs, log, dup, slack>>

\* ------------------------------------------------------------------------
\* The acquisition loop at the grain of its I/O calls: main's `while True`
\* and save_all_data / save_data, one step per call on the device or on the
\* storage, each of which may raise; the storage mount comes and goes
\* ------------------------------------------------------------------------
MaxWaits == 2           \* failed mount checks followed per wait_for_storage call
MaxIoRecs == 9          \* save_all_data calls followed per run
MaxIoLog == 8           \* calls followed per save_all_data call before a poll

check_interval == 5     \* wait_for_storage(mount_path, check_interval=5)

IoConfigs ==
  {Cfg(NoState, None, sd, each, 1, 0, 1) : sd \in BOOLEAN, each \in BOOLEAN}
  \cup {Cfg(<<2>>, None, TRUE, TRUE, 1, 0, 1)}

WalkOutcomes == {"dirs", "empty", "raises"}

\* is_storage_mounted: `mountpoint -q` answers unless running it raises
\* (missing binary, timeout), then the directory listing decides, and a
\* listing that raises counts as not mounted
is_storage_mounted(mounted, cmdRaises, walk) ==
  IF ~cmdRaises THEN mounted ELSE walk = "dirs"

IoEv(op, ok, arg) == [op |-> op, ok |-> ok, arg |-> arg]

\* mutant: the mount is checked once, `if not is_storage_mounted(...)`
wait_for_storage_once(r, here, next) == next

\* wait_for_storage: `while not is_storage_mounted(mount_path)`
wait_for_storage(r, here, next) == IF r THEN next ELSE here

\* mutant: a call that raised is caught and made again
Propagate_retry(ok, here, next) == IF ok THEN next ELSE here

\* main and save_all_data have no try/except: an exception of a call leaves
\* the `while True` loop and main
Propagate(ok, here, next) == IF ok THEN next ELSE "crashed"

InitIo ==
  /\ io_cfg \in IoConfigs
  /\ io_pc = "top_wait"
  /\ io_st = 0
  /\ io_n = 0
  /\ io_held = 0
  /\ io_mounted \in BOOLEAN
  /\ io_log = <<>>
  /\ io_waits = 0
  /\ io_recs = 0
  /\ io_switched = <<>>

IdleIo ==
  /\ io_cfg = Cfg(NoState, None, FALSE, FALSE, 0, 0, 0)
  /\ io_pc = "idle"
  /\ io_st = 0
  /\ io_n = 0
  /\ io_held = 0
  /\ io_mounted = FALSE
  /\ io_log = <<>>
  /\ io_waits = 0
  /\ io_recs = 0
  /\ io_switched = <<>>

\* the storage is plugged in or drops out
IoMount ==
  /\ io_pc # "idle"
  /\ io_mounted' = ~io_mounted
  /\ UNCHANGED <<io_cfg, io_pc, io_st, io_n, io_held, io_log, io_waits,
                 io_recs, io_switched>>

\* one pass of wait_for_storage's loop, at the top of a cycle or in save_data
IoWait ==
  /\ io_pc \in {"top_wait", "save_wait"}
  /\ \E cmdRaises \in BOOLEAN, walk \in WalkOutcomes :
       LET r == is_storage_mounted(io_mounted, cmdRaises, walk)
           next == IF io_pc = "top_wait" THEN "top_read" ELSE "save_fs"
       IN /\ ~r => io_waits < MaxWaits
          /\ io_log' = io_log \o <<IoEv("is_storage_mounted", r, 0)>>
                         \o (IF r THEN <<>>
                             ELSE <<IoEv("sleep", TRUE, check_interval)>>)
          /\ io_waits' = IF r THEN 0 ELSE io_waits + 1
          /\ io_pc' = wait_for_storage(r, io_pc, next)
  /\ UNCHANGED <<io_cfg, io_st, io_n, io_held, io_mounted, io_recs, io_switched>>

\* `acc_n = fpga.read_uint('acc_cnt')`, then the first state of the run
IoTopRead ==
  /\ io_pc = "top_read"
  /\ \E ok \in BOOLEAN :
       /\ io_log' = Append(io_log, IoEv("read_uint", ok, 0))
       /\ io_pc' = Propagate(ok, io_pc, "switch")
  /\ io_st' = IF io_cfg.input_state # NoState THEN io_cfg.input_state[1] ELSE 1
  /\ io_n' = 0
  /\ UNCHANGED <<io_cfg, io_held, io_mounted, io_waits, io_recs, io_switched>>

\* where the loop goes with k records of state s collected
IoAfter(s, k) ==
  IF k < SpectraN(s, io_cfg) THEN [pc |-> "poll", st |-> s]
  ELSE LET a == AfterState(s, io_cfg.input_state # NoState)
       IN [pc |-> IF a.pc = "cycle_end" THEN "top_wait" ELSE a.pc, st |-> a.st]

\* rcal.gpio_switch(s, SWITCH_DELAY)
IoSwitch ==
  /\ io_pc = "switch"
  /\ io_switched' = <<io_st>>
  /\ io_log' = <<>>
  /\ io_held' = 0
  /\ io_n' = 0
  /\ io_pc' = IoAfter(io_st, 0).pc
  /\ io_st' = IoAfter(io_st, 0).st
  /\ UNCHANGED <<io_cfg, io_mounted, io_waits, io_recs>>

\* print_acc_cnt: the register reads of the poll
IoPoll ==
  /\ io_pc = "poll"
  /\ io_recs < MaxIoRecs
  /\ Len(io_log) < MaxIoLog
  /\ \E ok \in BOOLEAN :
       /\ io_log' = Append(io_log, IoEv("print_acc_cnt", ok, 0))
       /\ io_pc' = Propagate(ok, io_pc, "block")
  /\ UNCHANGED <<io_cfg, io_st, io_n, io_held, io_mounted, io_waits, io_recs,
                 io_switched>>

\* get_vacc_data: the block reads and the counter read; in averaged mode the
\* spectrum joins the dictionary, under an id that is new or already held
IoBlock ==
  /\ io_pc = "block"
  /\ \E ok \in BOOLEAN, fresh \in BOOLEAN :
       LET held == IF io_cfg.SAVE_EACH_ACC THEN 0
                   ELSE IF fresh \/ io_held = 0 THEN io_held + 1 ELSE io_held
           complete == io_cfg.SAVE_EACH_ACC \/ held >= N_AVG
           next == IF ~complete THEN "poll"
                   ELSE IF io_cfg.SAVE_DATA THEN "save_wait" ELSE "done"
       IN /\ io_log' = Append(io_log, IoEv("get_vacc_data", ok, 0))
          /\ io_held' = IF ok THEN held ELSE io_held
          /\ io_pc' = Propagate(ok, io_pc, next)
  /\ UNCHANGED <<io_cfg, io_st, io_n, io_mounted, io_waits, io_recs, io_switched>>

\* save_data between the mount wait and the write: os.walk, os.listdir,
\* os.mkdir, get_sub_directory
IoSaveFs ==
  /\ io_pc = "save_fs"
  /\ \E ok \in BOOLEAN :
       /\ io_log' = Append(io_log, IoEv("os.walk", ok, 0))
       /\ io_pc' = Propagate(ok, io_pc, "save_write")
  /\ UNCHANGED <<io_cfg, io_st, io_n, io_held, io_mounted, io_waits, io_recs,
                 io_switched>>

\* np.save(file_path, dataDict)
IoSaveWrite ==
  /\ io_pc = "save_write"
  /\ \E ok \in BOOLEAN :
       /\ io_log' = Append(io_log, IoEv("np.save", ok, 0))
       /\ io_pc' = Propagate(ok, io_pc, "done")
  /\ UNCHANGED <<io_cfg, io_st, io_n, io_held, io_mounted, io_waits, io_recs,
                 io_switched>>

\* save_all_data returns; the `for` loops and `while True` go on
IoDone ==
  /\ io_pc = "done"
  /\ io_recs' = io_recs + 1
  /\ io_log' = <<>>
  /\ io_held' = 0
  /\ io_pc' = IoAfter(io_st, io_n + 1).pc
  /\ io_st' = IoAfter(io_st, io_n + 1).st
  /\ io_n' = IF IoAfter(io_st, io_n + 1).pc = "poll" THEN io_n + 1 ELSE 0
  /\ UNCHANGED <<io_cfg, io_mounted, io_waits, io_switched>>

\* ------------------------------------------------------------------------
\* Successive print_acc_cnt / get_vacc_data pairs of save_all_data against a
\* device whose counter only counts up, one register read per step
\* ------------------------------------------------------------------------
MaxSsHw == 6            \* the counter runs from 0 to MaxSsHw
MaxSsRecs == 2          \* averaged records' worth of pairs followed per run

InitSteps ==
  /\ ss_each \in BOOLEAN
  /\ ss_pc = "top"
  /\ ss_hw \in 0 .. 1
  /\ ss_last = 0
  /\ ss_reads = <<>>
  /\ ss_ids = <<>>
  /\ ss_spectra = <<>>
  /\ ss_steps = 0
  /\ ss_done = <<>>

IdleSteps ==
  /\ ss_each = FALSE
  /\ ss_pc = "idle"
  /\ ss_hw = 0
  /\ ss_last = 0
  /\ ss_reads = <<>>
  /\ ss_ids = <<>>
  /\ ss_spectra = <<>>
  /\ ss_steps = 0
  /\ ss_done = <<>>

\* the device completes an accumulation
SsTick ==
  /\ ss_pc # "idle"
  /\ ss_hw < MaxSsHw
  /\ ss_hw' = ss_hw + 1
  /\ UNCHANGED <<ss_each, ss_pc, ss_last, ss_reads, ss_ids, ss_spectra,
                 ss_steps, ss_done>>

\* top of main's `while True`: `acc_n = fpga.read_uint('acc_cnt')`
SsTop ==
  /\ ss_pc = "top"
  /\ ss_last' = ss_hw
  /\ ss_pc' = "sync"
  /\ UNCHANGED <<ss_each, ss_hw, ss_reads, ss_ids, ss_spectra, ss_steps, ss_done>>

\* one register read of `acc_n = print_acc_cnt(fpga, acc_n)`
SsSync ==
  /\ ss_pc = "sync"
  /\ Len(ss_ids) < N_AVG * MaxSsRecs
  /\ Len(ss_reads) < MaxReads
  /\ LET rs == Append(ss_reads, ss_hw)
         o  == print_acc_cnt(rs, ss_last)
     IN IF o.returned
        THEN /\ ss_last' = o.acc_n
             /\ ss_reads' = <<>>
             /\ ss_pc' = "read"
        ELSE /\ ss_reads' = rs
             /\ UNCHANGED <<ss_last, ss_pc>>
  /\ UNCHANGED <<ss_each, ss_hw, ss_ids, ss_spectra, ss_steps, ss_done>>

\* `s, cnt = get_vacc_data(fpga)`, then the record (per-accumulation mode)
\* or `spectra[cnt] = s` and the test of `while len(spectra) < 3`; after a
\* record the `for` loop goes on or the cycle ends
SsRead ==
  /\ ss_pc = "read"
  /\ LET cnt == ss_hw
         d   == DictPut(ss_spectra, cnt, 0)
         complete == ss_each \/ Len(d) >= N_AVG
     IN /\ ss_ids' = Append(ss_ids, cnt)
        /\ IF complete
           THEN /\ ss_spectra' = <<>>
                /\ ss_steps' = 0
                /\ ss_done' = <<ss_steps + 1>>
                /\ ss_pc' \in {"sync", "top"}
           ELSE /\ ss_spectra' = d
                /\ ss_steps' = ss_steps + 1
                /\ ss_pc' = "sync"
                /\ UNCHANGED ss_done
  /\ UNCHANGED <<ss_each, ss_hw, ss_last, ss_reads>>


\* ------------------------------------------------------------------------
\* Specifications
\* ------------------------------------------------------------------------
Init == IdleSync /\ IdleLocate /\ IdleBringUp /\ IdleSwitch /\ IdleRead /\ IdleIo /\ IdleSteps /\ InitSeq

Next ==
  \/ MainStart /\ UNCHANGED exSeq
  \/ CycleTop /\ UNCHANGED exSeq
  \/ SwitchState /\ UNCHANGED exSeq
  \/ CollectMore /\ UNCHANGED exSeq
  \/ CollectLast /\ UNCHANGED exSeq
  \/ CollectEach /\ UNCHANGED exSeq
  \/ CycleEnd /\ UNCHANGED exSeq

Spec == Init /\ [][Next]_vars

InitS == InitSync /\ IdleLocate /\ IdleBringUp /\ IdleSwitch /\ IdleRead /\ IdleIo /\ IdleSteps /\ IdleSeq

NextSync == SyncRead /\ UNCHANGED exSync

InitLive ==
  IdleSync /\ IdleLocate /\ IdleBringUp /\ IdleSwitch /\ IdleRead /\ IdleIo /\ IdleSteps /\ InitSeqLive

\* a pass of the averaging loop that reads an accumulation id not yet held
CollectFresh == CollectMore /\ Len(spectra') > Len(spectra)

\* the sequencer under the provisos of its progress properties: the storage
\* stays mounted and no collaborator call raises, so every step that is
\* enabled is taken; the counter keeps advancing, so every awaitNext returns
\* and the averaging loop keeps meeting accumulation ids it does not hold
SpecLive ==
  /\ InitLive
  /\ [][Next]_vars
  /\ WF_vars(Next)
  /\ WF_vars(CollectFresh /\ UNCHANGED exSeq)
  /\ WF_vars(CollectLast /\ UNCHANGED exSeq)

SpecSync == InitS /\ [][NextSync]_vars

InitL == IdleSync /\ InitLocate /\ IdleBringUp /\ IdleSwitch /\ IdleRead /\ IdleIo /\ IdleSteps /\ IdleSeq

NextLocate ==
  \/ LocHostname /\ UNCHANGED exLoc
  \/ LocHardcoded /\ UNCHANGED exLoc
  \/ LocLinks /\ UNCHANGED exLoc
  \/ LocIface /\ UNCHANGED exLoc

SpecLocate == InitL /\ [][NextLocate]_vars


InitB == IdleSync /\ IdleLocate /\ InitBringUp /\ IdleSwitch /\ IdleRead /\ IdleIo /\ IdleSteps /\ IdleSeq

NextBringUp ==
  \/ InStart /\ UNCHANGED exInit
  \/ InDiscover /\ UNCHANGED exInit
  \/ InCheck /\ UNCHANGED exInit
  \/ InBringUpStep /\ UNCHANGED exInit
  \/ InConfigure /\ UNCHANGED exInit
  \/ InReturn /\ UNCHANGED exInit
  \/ InHostDown /\ UNCHANGED exInit

SpecBringUp == InitB /\ [][NextBringUp]_vars


InitW == IdleSync /\ IdleLocate /\ IdleBringUp /\ InitSwitch /\ IdleRead /\ IdleIo /\ IdleSteps /\ IdleSeq

NextSwitch == SwitchCall /\ UNCHANGED exSw

SpecSwitch == InitW /\ [][NextSwitch]_vars

InitR == IdleSync /\ IdleLocate /\ IdleBringUp /\ IdleSwitch /\ InitRead /\ IdleIo /\ IdleSteps /\ IdleSeq

NextRead ==
  \/ RdCall /\ UNCHANGED exRd
  \/ RdBlock /\ UNCHANGED exRd
  \/ RdReturn /\ UNCHANGED exRd
  \/ RdTick /\ UNCHANGED exRd

SpecRead == InitR /\ [][NextRead]_vars

InitI == IdleSync /\ IdleLocate /\ IdleBringUp /\ IdleSwitch /\ IdleRead /\ InitIo /\ IdleSteps /\ IdleSeq

NextIo ==
  \/ IoMount /\ UNCHANGED exIo
  \/ IoWait /\ UNCHANGED exIo
  \/ IoTopRead /\ UNCHANGED exIo
  \/ IoSwitch /\ UNCHANGED exIo
  \/ IoPoll /\ UNCHANGED exIo
  \/ IoBlock /\ UNCHANGED exIo
  \/ IoSaveFs /\ UNCHANGED exIo
  \/ IoSaveWrite /\ UNCHANGED exIo
  \/ IoDone /\ UNCHANGED exIo

SpecIO == InitI /\ [][NextIo]_vars

InitT ==
  /\ IdleSync /\ IdleLocate /\ IdleBringUp /\ IdleSwitch /\ IdleRead /\ IdleIo
  /\ InitSteps /\ IdleSeq

NextSteps ==
  \/ SsTick /\ UNCHANGED exSs
  \/ SsTop /\ UNCHANGED exSs
  \/ SsSync /\ UNCHANGED exSs
  \/ SsRead /\ UNCHANGED exSs

SpecSteps == InitT /\ [][NextSteps]_vars

\* the helpers that exist twice, in fpga_helper.py and in
\* run_spectrometer.py: a run exercises the poll or the spectrum read
InitHelpers ==
  \/ InitS
  \/ InitR

NextHelpers ==
  \/ rd_pc = "idle" /\ SyncRead /\ UNCHANGED exSync
  \/ RdCall /\ UNCHANGED exRd
  \/ RdBlock /\ UNCHANGED exRd
  \/ RdReturn /\ UNCHANGED exRd
  \/ RdTick /\ UNCHANGED exRd

SpecHelpers == InitHelpers /\ [][NextHelpers]_vars

\* ------------------------------------------------------------------------
\* Properties
\* ------------------------------------------------------------------------
SetEvents == SelectSeq(log, LAMBDA e : e[1] = "set")
RecEvents == SelectSeq(log, LAMBDA e : e[1] = "rec")
RecCount(s) == Len(SelectSeq(log, LAMBDA e : e[1] = "rec" /\ e[2] = s))
SweepOrder == <<1, 2, 3, 4, 5, 6, 7, 0>>

\* the state of the latest setState before position k of the cycle's events
RECURSIVE LastSet(_)
LastSet(k) ==
  IF k = 0 THEN -1 ELSE IF log[k][1] = "set" THEN log[k][2] ELSE LastSet(k - 1)

C1_LogOrder ==
  (pc # "start" /\ ~Single) =>
    /\ Len(SetEvents) <= Len(SweepOrder)
    /\ \A k \in 1 .. Len(SetEvents) : SetEvents[k][2] = SweepOrder[k]
    /\ \A k \in 1 .. Len(log) : log[k][1] = "rec" => log[k][2] = LastSet(k - 1)
    /\ pc = "collect" => (Len(log) > 0 /\ LastSet(Len(log)) = st)
    /\ pc = "cycle_end" => Len(SetEvents) = Len(SweepOrder)

C1_Step ==
  ~Single =>
    /\ pc = "cycle_end" => (cycle_count' = cycle_count + 1 /\ pc' = "top")
    /\ pc = "top" => (pc' = "switch" /\ st' = 1 /\ log' = <<>>)
    /\ pc = "switch" => now' >= now + SwitchDelayTicks

\* C1: in sweep mode every cycle drives the switch to states 1,2,...,7 in
\* that order and then to state 0; the records of a state are all collected
\* after its setState (and settle delay) and before the next setState; after
\* the state-0 records the cycle counter goes up by one and the next cycle
\* starts again at state 1.
C1_SweepOrder == [](C1_LogOrder) /\ [][C1_Step]_vars

C1_Witness ==
  /\ ~Single
  /\ pc = "top"
  /\ cycle_count = 1
  /\ Len(SetEvents) = 8
  /\ Len(RecEvents) > 8

\* C2: one sweep cycle collects CAL_ACC_N records in each of the states
\* 1,3,4,5,6,7, CAL_ACC_N + FB_N in state 2 and ANT_ACC_N in state 0, that
\* is 7*CAL_ACC_N + FB_N + ANT_ACC_N in all; 17 for the counts (2, 1, 2).
C2_RecordsPerCycle ==
  (pc = "cycle_end" /\ ~Single) =>
    /\ \A s \in {1, 3, 4, 5, 6, 7} : RecCount(s) = cfg.CAL_ACC_N
    /\ RecCount(2) = cfg.CAL_ACC_N + cfg.FB_N
    /\ RecCount(0) = cfg.ANT_ACC_N
    /\ Len(RecEvents) = 7 * cfg.CAL_ACC_N + cfg.FB_N + cfg.ANT_ACC_N
    /\ (cfg.CAL_ACC_N = 2 /\ cfg.FB_N = 1 /\ cfg.ANT_ACC_N = 2) => Len(RecEvents) = 17

C2_Witness ==
  /\ pc = "cycle_end"
  /\ ~Single
  /\ cfg.CAL_ACC_N = 2 /\ cfg.FB_N = 1 /\ cfg.ANT_ACC_N = 2
  /\ Len(RecEvents) = 17

\* C3 (as claimed): the count awaitNext returns is strictly greater than
\* lastSeen, whatever values the register returns.
C3_ReturnsGreater == sy_out.returned => sy_out.acc_n > sy_last

\* C4: the iteration count get_acc_cnt returns is the number of register
\* reads of the call, the first one included, and the count returned is the
\* value of the last read; reads 5,5,5,7 with lastSeen 5 give (7, 4).
C4_PollCount ==
  sy_out.returned =>
    /\ sy_out.c = Len(sy_reads)
    /\ sy_out.acc_n = sy_reads[Len(sy_reads)]
    /\ (sy_last = 5 /\ sy_reads = <<5, 5, 5, 7>>) => (sy_out.acc_n = 7 /\ sy_out.c = 4)

C4_Witness == sy_out.returned /\ sy_last = 5 /\ sy_reads = <<5, 5, 5, 7>>

\* C5: in averaged mode a saved record is the sum of exactly three spectra
\* whose accumulation ids are pairwise distinct; a read whose id is already
\* held adds no fourth term and does not count towards the three.
C5_ThreeDistinct ==
  (lastRec.valid /\ lastRec.average) =>
    /\ Len(lastRec.contrib) = 3
    /\ \A i, j \in 1 .. Len(lastRec.contrib) :
         i # j => lastRec.contrib[i].id # lastRec.contrib[j].id
    /\ lastRec.spectrum =
         lastRec.contrib[1].s + lastRec.contrib[2].s + lastRec.contrib[3].s

C5_Witness == lastRec.valid /\ lastRec.average /\ lastRec.dup

\* C6: a save_data call selects a subdirectory exactly when a cycle boundary
\* is pending (the cycle counter went up since the last selection) or no
\* subdirectory exists yet; any other call leaves the current subdirectory
\* as it is; the record is written into the current subdirectory.
C6_SelectsAtBoundary ==
  lastSel.called =>
    /\ lastSel.selected <=> (lastSel.pendingBefore \/ lastSel.before = NoDir)
    /\ ~lastSel.selected => lastSel.after = lastSel.before
    /\ lastSel.file_dir = lastSel.after
    /\ lastSel.after = current_sub_dir_path
    /\ lastSel.after # NoDir

C6_Witness ==
  /\ lastSel.called
  /\ lastSel.selected
  /\ lastSel.pendingBefore
  /\ lastSel.before # NoDir

\* C7 (as claimed): a save at a cycle boundary creates a subdirectory
\* distinct from every subdirectory used earlier in the run; saves without
\* a boundary keep writing into the same subdirectory.
C7_BoundaryDirIsNew ==
  lastSel.called =>
    /\ lastSel.pendingBefore => (lastSel.selected /\ lastSel.fresh)
    /\ (~lastSel.pendingBefore /\ lastSel.before # NoDir) =>
         lastSel.after = lastSel.before

\* C8 (as claimed): the cycle counter and the set/unset state of the current
\* subdirectory evolve as they do with SAVE_DATA = True, whatever SAVE_DATA is.
C8_SameBookkeeping ==
  /\ cycle_count = ref.cycle_count
  /\ (current_sub_dir_path # NoDir) = ref.set

ConnectOk(k) == lc_log[k].kind = "connect" /\ lc_log[k].ok
Resolves == SelectSeq(lc_log, LAMBDA e : e.kind = "resolve")
MethodTried(m) == \E k \in 1 .. Len(lc_log) : lc_log[k].method = m

\* C9: discover_fpga_address probes in the order hostnames, hardcoded
\* address, IPv6 candidates; a later method is probed only after every probe
\* of the earlier ones failed; nothing is probed after a successful connect;
\* the address returned is the one whose connect succeeded.
C9_StrictOrder ==
  /\ \A a, b \in 1 .. Len(lc_log) : a < b => lc_log[a].method <= lc_log[b].method
  /\ \A k \in 1 .. Len(lc_log) : ConnectOk(k) => k = Len(lc_log)
  /\ \A k \in 1 .. Len(lc_log) :
       ConnectOk(k) => (lc_pc = "returned" /\ lc_ret = lc_log[k].addr)
  /\ (lc_pc = "returned" /\ lc_ret # None) =>
       (Len(lc_log) > 0 /\ ConnectOk(Len(lc_log)))
  /\ Len(Resolves) <= Len(lc_hosts)
  /\ \A k \in 1 .. Len(Resolves) : Resolves[k].host = lc_hosts[k]
  /\ (MethodTried(2) \/ MethodTried(3) \/ lc_pc \in {"m2", "m3", "m3_iface"}) =>
       Len(Resolves) = Len(lc_hosts)
  /\ (MethodTried(3) \/ lc_pc \in {"m3", "m3_iface"}) => MethodTried(2)

C9_Witness ==
  /\ lc_pc = "returned"
  /\ lc_ret = FPGA_IP
  /\ \E k \in 1 .. Len(lc_log) :
       lc_log[k].method = 1 /\ lc_log[k].kind = "connect" /\ ~lc_log[k].ok

FailedHostConnect(k) ==
  lc_log[k].method = 1 /\ lc_log[k].kind = "connect" /\ ~lc_log[k].ok

\* C10: after a hostname resolved and its connect probe failed, the call
\* goes on with the remaining hostnames and then attempts the hardcoded
\* address, unless a later hostname's connect succeeds.
C10_ChainContinues ==
  \A k \in 1 .. Len(lc_log) :
    FailedHostConnect(k) =>
      /\ lc_pc # "raised"
      /\ lc_pc = "m1" =>
           (lc_i <= Len(lc_hosts) /\
            \E h \in 1 .. lc_i - 1 : lc_hosts[h] = lc_log[k].host)
      /\ lc_pc \in {"m3", "m3_iface", "returned"} =>
           \/ \E j \in k + 1 .. Len(lc_log) : lc_log[j].method = 1 /\ ConnectOk(j)
           \/ /\ \E j \in k + 1 .. Len(lc_log) :
                   /\ lc_log[j].method = 2
                   /\ lc_log[j].kind = "connect"
                   /\ lc_log[j].addr = FPGA_IP
              /\ Len(Resolves) = Len(lc_hosts)

C10_Witness ==
  /\ lc_pc = "returned"
  /\ \E k \in 1 .. Len(lc_log) :
       /\ FailedHostConnect(k)
       /\ lc_log[k].host = lc_hosts[1]
       /\ \E j \in k + 1 .. Len(lc_log) : lc_log[j].method = 2

\* C11: a finished discover_fpga_address call returned None exactly when no
\* connect probe of the call succeeded, and it returns None only after every
\* hostname was tried and the hardcoded address was probed.
C11_NoneIffAllFailed ==
  lc_pc = "returned" =>
    /\ lc_ret = None <=> (\A k \in 1 .. Len(lc_log) : ~ConnectOk(k))
    /\ lc_ret = None =>
         /\ Len(Resolves) = Len(lc_hosts)
         /\ \A k \in 1 .. Len(lc_log) : ~lc_log[k].ok \/ lc_log[k].kind = "resolve"
         /\ \E k \in 1 .. Len(lc_log) :
              lc_log[k].method = 2 /\ lc_log[k].addr = FPGA_IP /\ ~lc_log[k].ok

C11_Witness ==
  /\ lc_pc = "returned"
  /\ lc_ret = None
  /\ \E k \in 1 .. Len(lc_log) : lc_log[k].method = 3 /\ lc_log[k].addr = "fe80::1"
  /\ \E k \in 1 .. Len(lc_log) : FailedHostConnect(k)

\* C12 (as claimed): discover_fpga_address never raises to its caller,
\* whatever failure a sub-step produces.
C12_NeverRaises == lc_pc # "raised"

Locates == SelectSeq(in_log, LAMBDA e : e.ev = "locate")
RetrySleep(e) == e.ev = "sleep" /\ e.val = "retry"
DiscoveryEscalated ==
  \E i \in 1 .. Len(in_log) : in_log[i].ev = "reboot" /\ in_log[i].val = "discovery"

\* C13 (as claimed): initialize_fpga writes acc_len and returns a handle only
\* when discovery found an address and every bring-up step succeeded; once
\* it escalated, no acc_len write is made and no handle is returned.
C13_NoPartialSuccess ==
  \A i \in 1 .. Len(in_log) :
    in_log[i].ev \in {"write_int", "return"} =>
      /\ in_addr # None
      /\ \A j \in 1 .. i - 1 : in_log[j].ev \notin {"raise", "reboot"}

\* C14: initialize_fpga calls discover_fpga_address at most max_retries (5)
\* times, numbered 0.. in order, and never again after a call returned an
\* address; it sleeps retry_delay exactly after each failed attempt but the
\* last, right before the next attempt; it escalates for discovery only
\* after all 5 attempts returned None.
C14_BoundedRetry ==
  /\ Len(Locates) <= 5
  /\ \A k \in 1 .. Len(Locates) : Locates[k].k = k - 1
  /\ \A k \in 1 .. Len(Locates) - 1 : Locates[k].val = None
  /\ \A i \in 1 .. Len(in_log) :
       /\ RetrySleep(in_log[i]) =>
            /\ in_log[i].k = retry_delay
            /\ in_log[i - 1].ev = "locate" /\ in_log[i - 1].val = None
            /\ in_log[i - 1].k < 4
            /\ i < Len(in_log) => in_log[i + 1].ev = "locate"
       /\ (in_log[i].ev = "locate" /\ in_log[i].val = None /\ in_log[i].k < 4) =>
            (i < Len(in_log) /\ RetrySleep(in_log[i + 1]))
       /\ (in_log[i].ev = "locate" /\ i < Len(in_log)) =>
            in_log[i + 1].ev # "locate"
  /\ in_pc \notin {"i_start", "i_discover"} =>
       (Len(Locates) > 0 /\ ~RetrySleep(in_log[Len(in_log)]))
  /\ DiscoveryEscalated =>
       (Len(Locates) = 5 /\ \A k \in 1 .. 5 : Locates[k].val = None)
  /\ (in_pc \notin {"i_start", "i_discover", "i_check"} /\ in_addr = None) =>
       DiscoveryEscalated

C14_Witness ==
  /\ DiscoveryEscalated
  /\ Len(SelectSeq(in_log, RetrySleep)) = 4

\* expected (pin 16, pin 20, pin 21) of each state in the GPIO verification
EXPECTED_STATES ==
  [s \in 0 .. 7 |->
     CASE s = 0 -> <<1, 1, 1>> [] s = 1 -> <<1, 1, 0>> [] s = 2 -> <<1, 0, 1>>
       [] s = 3 -> <<1, 0, 0>> [] s = 4 -> <<0, 1, 1>> [] s = 5 -> <<0, 1, 0>>
       [] s = 6 -> <<0, 0, 1>> [] s = 7 -> <<0, 0, 0>>]

\* what verify_state compares with the table: (pin 16, pin 20, pin 21)
PinsRead == <<sw_pins[3], sw_pins[2], sw_pins[1]>>

\* C15: after gpio_switch(s) with s in 0..7 the lines hold the binary
\* digits of 7 - s (bit 0 on pin 21, bit 1 on pin 20, bit 2 on pin 16), as
\* the verification table expects; the 8 states map one-to-one onto the 8
\* line patterns (state 0 gives 1,1,1 and state 7 gives 0,0,0).
C15_StateEncoding ==
  (sw_n # <<>> /\ sw_n[1] \in 0 .. 7) =>
    /\ sw_pins[1] + 2 * sw_pins[2] + 4 * sw_pins[3] = 7 - sw_n[1]
    /\ PinsRead = EXPECTED_STATES[sw_n[1]]
    /\ sw_n[1] = 0 => sw_pins = <<1, 1, 1>>
    /\ sw_n[1] = 7 => sw_pins = <<0, 0, 0>>
    /\ \A s \in 0 .. 7 : s # sw_n[1] => gpio_switch(s, sw_prev) # sw_pins
    /\ {gpio_switch(s, sw_prev) : s \in 0 .. 7} = Patterns

C15_Witness ==
  /\ sw_n = <<3>>
  /\ sw_prev = <<1, 1, 1>>
  /\ sw_pins = <<0, 0, 1>>

RdDone == rd_pc = "r_call" /\ rd_out # <<>>
RdN == half_nfft(rd_nfft)

C17_ReadsPerCall ==
  /\ Len(rd_log) <= rd_C + 1
  /\ \A k \in 1 .. Len(rd_log) :
       IF k <= rd_C THEN rd_log[k].reg = <<"q", k>> ELSE rd_log[k].reg = <<"acc_cnt", 0>>
  /\ (rd_pc = "r_call" /\ rd_calls > 0) =>
       /\ Len(rd_log) = rd_C + 1
       /\ rd_out[1].cnt = rd_log[rd_C + 1].val[1]
       /\ LET chunk == samples_per_channel(rd_nfft, rd_C)
          IN /\ Len(rd_out[1].spectrum) = rd_C * chunk
             /\ \A c \in 1 .. rd_C, k \in 1 .. chunk :
                  rd_out[1].spectrum[(k - 1) * rd_C + c] = rd_log[c].val[k]

C17_Witness ==
  /\ rd_pc = "r_call"
  /\ rd_calls = 2
  /\ rd_C = 3
  /\ ~rd_synth
  /\ rd_out[1].cnt = 8
  /\ rd_out[1].spectrum = <<0, 7, 7>>

C18_Run ==
  Single =>
    /\ cycle_count = 0
    /\ pc # "cycle_end"
    /\ Len(SetEvents) <= 1
    /\ \A k \in 1 .. Len(SetEvents) : SetEvents[k][2] = cfg.input_state[1]
    /\ Len(RecEvents) <= 100
    /\ \A k \in 1 .. Len(RecEvents) : RecEvents[k][2] = cfg.input_state[1]
    /\ lastRec.valid =>
         (lastRec.state = cfg.input_state[1] /\
          lastRec.filename.state = cfg.input_state[1])
    /\ Len(RecEvents) > 0 => (Len(SetEvents) = 1 /\ log[1][1] = "set")
    /\ pc = "exited" => Len(RecEvents) = 100

Switched(s) == log # <<>> /\ log[Len(log)] = <<"set", s>>
Collected(s) == lastRec.valid /\ lastRec.state = s

\* C19: in sweep mode, when every awaitNext returns and nothing raises, main
\* never leaves its loop, and each of the states 0..7 is switched to, and has
\* a record collected in it, again and again without end.
C19_SweepForever ==
  /\ []((~Single) => pc # "exited")
  /\ \A s \in 0 .. 7 :
       []<>(Single \/ Switched(s)) /\ []<>(Single \/ Collected(s))

C19_Witness ==
  /\ ~Single
  /\ Collected(0)
  /\ lastSel.called /\ ~lastSel.fresh

\* the value the poll loop compares with: the larger of lastSeen and the
\* first read
PollBase == IF sy_reads[1] > sy_last THEN sy_reads[1] ELSE sy_last

\* C20: get_acc_cnt has no timeout: as long as every read of acc_cnt returns
\* the baseline value the call has not returned, however many reads were
\* made (so nothing after the call, a record save included, takes place);
\* the call returns at the first read that differs from the baseline.
C20_NoTimeout ==
  Len(sy_reads) > 0 =>
    /\ (\A k \in 1 .. Len(sy_reads) : sy_reads[k] = PollBase) => ~sy_out.returned
    /\ (\E k \in 1 .. Len(sy_reads) : sy_reads[k] # PollBase) => sy_out.returned
    /\ sy_out.returned =>
         /\ sy_out.unread = 0
         /\ sy_reads[Len(sy_reads)] # PollBase
         /\ \A k \in 1 .. Len(sy_reads) - 1 : sy_reads[k] = PollBase

C20_Witness ==
  /\ sy_last = 5
  /\ sy_reads = <<5, 5, 5, 5>>
  /\ ~sy_out.returned

IoChecks(i) == io_log[i].op = "is_storage_mounted"

\* C21: a missing mount is handled by waiting only. Every np.save of the
\* log has, earlier in the same save_data call (after the block read that
\* precedes it), a mount check that returned True; a check that returned
\* False is followed by a sleep of the fixed interval and then by the next
\* check, never by anything else; a check that returned True is followed by
\* the next call of the caller; and the loop never ends on a mount check.
C21_WaitOnly ==
  /\ \A i \in 1 .. Len(io_log) :
       /\ io_log[i].op = "np.save" =>
            \E j \in 1 .. i - 1 :
              /\ IoChecks(j) /\ io_log[j].ok
              /\ \A k \in j + 1 .. i - 1 : io_log[k].op = "os.walk"
              /\ \E b \in 1 .. j - 1 :
                   /\ io_log[b].op = "get_vacc_data"
                   /\ \A k \in b + 1 .. j : io_log[k].op \in {"is_storage_mounted", "sleep"}
       /\ (IoChecks(i) /\ ~io_log[i].ok) =>
            /\ i < Len(io_log)
            /\ io_log[i + 1] = IoEv("sleep", TRUE, 5)
            /\ i + 1 < Len(io_log) => IoChecks(i + 2)
            /\ i + 1 = Len(io_log) => io_pc \in {"top_wait", "save_wait"}
       /\ (IoChecks(i) /\ io_log[i].ok) =>
            /\ i < Len(io_log) => io_log[i + 1].op \in {"read_uint", "os.walk"}
            /\ i = Len(io_log) => io_pc \in {"top_read", "save_fs"}
  /\ io_pc = "crashed" => io_log[Len(io_log)].op \notin {"is_storage_mounted", "sleep"}

\* a record written after the mount was found missing and then present
C21_Witness ==
  /\ io_pc = "done"
  /\ \E i \in 1 .. Len(io_log) - 3 :
       /\ IoChecks(i) /\ ~io_log[i].ok
       /\ io_log[i + 1].op = "sleep"
       /\ IoChecks(i + 2) /\ io_log[i + 2].ok
       /\ io_log[Len(io_log)] = IoEv("np.save", TRUE, 0)

\* a call of the loop that raised: anything but the mount check, whose
\* False answer is a result and not an exception
IoRaised(e) == ~e.ok /\ e.op # "is_storage_mounted"

\* C22: the sequencer performs no retries. A register read, block read or
\* storage operation that raised is the last call the loop ever made and
\* the loop has ended; once it has ended, no call is logged, no switch is set
\* and no record is completed any more.
C22_NoRetry ==
  /\ [](\A i \in 1 .. Len(io_log) :
          IoRaised(io_log[i]) => i = Len(io_log) /\ io_pc = "crashed")
  /\ [][io_pc = "crashed" =>
          UNCHANGED <<io_pc, io_log, io_switched, io_recs, io_st, io_n, io_held>>]_vars

\* a storage fault in the second or a later record of a run ended the loop
C22_Witness ==
  /\ io_pc = "crashed"
  /\ io_recs >= 1
  /\ io_log[Len(io_log)] = IoEv("np.save", FALSE, 0)

\* C23: a record saved in averaged mode carries the literal marker
\* "average" as its accumulation label, in its filename or among the keys
\* and values of the persisted dictionary.
C23_AverageMarker ==
  (lastRec.valid /\ lastRec.average /\ lastRec.saved) =>
    \/ lastRec.filename.suffix = <<"average">>
    \/ \E k \in DOMAIN lastRec.dataDict \ {"switch_state", "spectrum"} :
         lastRec.dataDict[k] = "average"

\* C24: in per-accumulation mode a record is made of exactly one
\* accumulation and its filename ends with the id get_vacc_data returned
\* for that read; a filename has an accumulation suffix if and only if
\* per-accumulation mode is active.
C24_SuffixIsReadId ==
  lastRec.valid =>
    /\ cfg.SAVE_EACH_ACC =>
         /\ Len(lastRec.contrib) = 1
         /\ lastRec.filename.suffix = <<lastRec.contrib[1].id>>
    /\ (lastRec.filename.suffix # <<>>) <=> cfg.SAVE_EACH_ACC

\* a saved per-accumulation record of accumulation 2
C24_Witness ==
  /\ lastRec.valid /\ lastRec.saved /\ cfg.SAVE_EACH_ACC
  /\ lastRec.contrib[1].id = 2
  /\ lastRec.filename.suffix = <<2>>

\* the file path save_data resolved for the last record
FilePath == <<lastSel.file_dir, lastRec.filename>>

\* the step completed a save_all_data call
RecordStep == Len(log') = Len(log) + 1 /\ log'[Len(log')][1] = "rec"

\* C25: one file per saved record. The record of a save_all_data call
\* that is saved right after the record of the call before it never
\* resolves to the file path of that record, so it does not overwrite it.
C25_OneFilePerRecord ==
  [][(/\ RecordStep
      /\ lastRec.valid /\ lastRec.saved
      /\ lastRec'.valid /\ lastRec'.saved)
     => FilePath' # FilePath]_vars

\* C26: the spectrum one get_vacc_data call returns is a consistent block.
\* With the device completing accumulations while the call runs, all the
\* channel blocks the call read belong to one and the same accumulation and
\* the count returned with the spectrum is the count of that accumulation.
C26_ConsistentBlock ==
  (RdDone /\ Len(rd_log) = rd_C + 1) =>
    \A k \in 1 .. rd_C : rd_log[k].acc = rd_out[1].cnt

\* the link-local address the device answers on, port 7147, on whichever
\* interface lists it as a neighbour
DeviceLinkLocal == "fe80::1"

\* C27: every IPv6 address discover_fpga_address returns carries its
\* interface scope. When method 3 probes the candidate the device answers
\* on, the call returns that link-local address together with the interface
\* it was discovered on, the first such candidate of the call; and no
\* IPv6 address is ever returned without a scope.
C27_ScopedAddress ==
  lc_pc = "returned" =>
    /\ \A m \in NeighMatches : \A i \in 1 .. Len(m) : lc_ret # m[i]
    /\ \A k \in 1 .. Len(lc_log) :
         (/\ lc_log[k].method = 3
          /\ lc_log[k].addr = DeviceLinkLocal
          /\ \A j \in 1 .. k - 1 :
               ~(lc_log[j].method = 3 /\ lc_log[j].addr = DeviceLinkLocal))
         => lc_ret = DeviceLinkLocal \o "%" \o lc_log[k].host

\* hostnames method 1 resolved so far, in order
ResolvedHosts ==
  LET rs == SelectSeq(lc_log, LAMBDA e : e.method = 1 /\ e.kind = "resolve")
  IN [k \in 1 .. Len(rs) |-> rs[k].host]

\* C28: the hostname candidates of a call are the hint followed by 'rfsoc',
\* 'localhost.localdomain', 'localhost', each name once and at its first
\* occurrence; method 1 resolves them in that order, so no hostname is
\* resolved or probed twice and the hint comes first.
C28_HostnameOrder ==
  lc_pc # "idle" =>
    LET fixed == <<"rfsoc", "localhost.localdomain", "localhost">>
        rest  == SelectSeq(fixed, LAMBDA h : h # lc_hint)
    IN /\ lc_hosts = (IF lc_hint # "" THEN <<lc_hint>> ELSE <<>>) \o rest
       /\ ResolvedHosts = SubSeq(lc_hosts, 1, Len(ResolvedHosts))
       /\ \A i, j \in 1 .. Len(lc_log) :
            (/\ i # j
             /\ lc_log[i].method = 1 /\ lc_log[j].method = 1
             /\ lc_log[i].kind = lc_log[j].kind)
            => lc_log[i].host # lc_log[j].host

\* a call whose hint is also a fallback name has tried it first and once,
\* then every other name
C28_Witness ==
  /\ lc_hint = "localhost"
  /\ ResolvedHosts = <<"localhost", "rfsoc", "localhost.localdomain">>

\* C29: gpio_switch is idempotent and independent of history. For every
\* state s in 0..7 the lines after gpio_switch(s) spell 7 - s whatever they
\* were before, a call repeating the state of the call before it leaves the
\* lines as they are, and gpio_switch(0) yields (1,1,1).
C29_Idempotent ==
  /\ [](\A s \in 0 .. 7 :
          sw_n = <<s>> =>
            /\ sw_pins[1] + 2 * sw_pins[2] + 4 * sw_pins[3] = 7 - s
            /\ s = 0 => sw_pins = <<1, 1, 1>>)
  /\ [][\A s \in 0 .. 7 :
          (sw_n = <<s>> /\ sw_n' = <<s>>) => sw_pins' = sw_pins]_vars

\* state 0 was set by a call that found the lines already spelling it
C29_Witness ==
  /\ sw_n = <<0>>
  /\ sw_prev = <<1, 1, 1>>
  /\ sw_pins = <<1, 1, 1>>

\* the calibration state the three switch lines encode (idx = 7 - n)
PinsState == 7 - (pins[1] + 2 * pins[2] + 4 * pins[3])

\* C30: every record is labelled with the state the switch is in. When a
\* record is collected, its 'switch state' field and the state of its
\* filename equal the state encoded on the three lines, in the sweep and in
\* a single-state run for every --state value.
C30_LabelIsSwitchState ==
  lastRec.valid =>
    /\ lastRec.dataDict.switch_state = PinsState
    /\ lastRec.filename.state = PinsState

\* C31 (as claimed): get_acc_cnt always waits for a fresh counter change.
\* The count it returns differs from the first value it read, and a call
\* whose first read is greater than or equal to lastSeen makes at least two
\* register reads.
C31_FreshChange ==
  sy_out.returned =>
    /\ sy_out.acc_n # sy_reads[1]
    /\ sy_reads[1] >= sy_last => Len(sy_reads) >= 2

\* C32 (as claimed): a call of initialize_fpga requests at most one host
\* power cycle, and once the reboot was requested the call executes no
\* further bring-up step, no second escalation and no acc_len write.
C32_OneReboot ==
  \A i \in 1 .. Len(in_log) :
    in_log[i].ev = "reboot" =>
      \A j \in i + 1 .. Len(in_log) :
        in_log[j].ev \notin {"step", "reboot", "write_int"}

\* a sweep with saving enabled in which every state collects a record
SavingSweep ==
  /\ cfg.SAVE_DATA /\ ~Single
  /\ cfg.CAL_ACC_N >= 1 /\ cfg.ANT_ACC_N >= 1

\* C33: in a sweep with saving enabled and every per-state count at least
\* 1 the cycle counter is 0 or 1; it is 1 only from the end of a cycle to the
\* first save of the next cycle, which resets it to 0.
C33_CycleCounterBinary ==
  (SavingSweep /\ pc # "start") =>
    /\ cycle_count \in {0, 1}
    /\ cycle_count = 1 => (pc = "top" \/ RecEvents = <<>>)
    /\ (lastSel.called /\ lastSel.pendingBefore) => cycle_count = 0

\* the first save of the second cycle has just reset the counter
C33_Witness ==
  /\ SavingSweep
  /\ lastSel.called /\ lastSel.pendingBefore /\ lastSel.selected
  /\ cycle_count = 0
  /\ Len(RecEvents) = 1

\* C34: against a counter that never decreases, the ids returned by
\* successive print_acc_cnt / get_vacc_data pairs are strictly increasing:
\* no two records of a per-accumulation run carry the same id, and an
\* averaged record takes exactly three such pairs.
C34_IdsIncrease ==
  /\ \A i, j \in 1 .. Len(ss_ids) : i < j => ss_ids[i] < ss_ids[j]
  /\ (ss_done # <<>> /\ ~ss_each) => ss_done[1] = N_AVG
  /\ (ss_done # <<>> /\ ss_each) => ss_done[1] = 1

\* two records of a per-accumulation run with the ids 2 and 3
C34_Witness ==
  /\ ss_each
  /\ Len(ss_ids) >= 2
  /\ ss_ids[1] = 2 /\ ss_ids[2] = 3
  /\ ss_pc = "sync" /\ ss_last = 3

\* C35 (as claimed): the file a save_data call writes lies in a
\* subdirectory of the parent directory that same call resolved from the
\* run-directory override or the date token of the filename.
C35_FileUnderResolvedParent ==
  (lastSel.called /\ lastRec.valid) =>
    lastSel.file_dir[1] = ParentDirName(cfg.run_directory, lastRec.filename)

\* C36: gpio_switch called with a state it rejects (n < 0, or n > 7 and
\* n # 10) leaves the three lines as they were, applies no settle delay and
\* returns the rejection message; an accepted state returns None.
C36_RejectedChangesNothing ==
  sw_n # <<>> =>
    LET rejected == sw_n[1] < 0 \/ (sw_n[1] > 7 /\ sw_n[1] # 10)
    IN /\ rejected => (sw_pins = sw_prev /\ sw_slept = 0 /\ sw_ret # None)
       /\ ~rejected => (sw_slept > 0 /\ sw_ret = None)

\* state 9 was rejected while the lines spelled state 5
C36_Witness ==
  /\ sw_n = <<9>>
  /\ sw_prev = <<0, 1, 0>>
  /\ sw_pins = <<0, 1, 0>>
  /\ sw_slept = 0
  /\ sw_ret # None

\* C37 (as claimed): the line pattern gpio_switch drives is unique to the
\* requested state over every value it accepts, 0..7 and 10: no other
\* accepted value, applied to the lines as they were, gives the pattern the
\* call left.
C37_PatternUnique ==
  (sw_n # <<>> /\ sw_n[1] \in (0 .. 7) \cup {10}) =>
    \A s \in (0 .. 7) \cup {10} :
      s # sw_n[1] => gpio_switch(s, sw_prev) # sw_pins

\* C38 (as claimed): initialize_fpga drives the switch to state 0 before
\* its first discovery attempt; and a record is collected only after the
\* sequencer drove the switch to the state the record is labelled with (the
\* last gpio_switch call of the loop asked for that state and the lines
\* encode it) and only after the settle delay of that call has passed.
C38_SwitchBeforeRecord ==
  /\ [](\A i \in 1 .. Len(in_log) :
          in_log[i].ev = "locate" =>
            \E j \in 1 .. i - 1 : in_log[j] = Ev("gpio_switch", 0, ""))
  /\ [](lastRec.valid =>
          /\ SetEvents # <<>>
          /\ SetEvents[Len(SetEvents)][2] = lastRec.state
          /\ pins[1] + 2 * pins[2] + 4 * pins[3] = 7 - lastRec.state)
  /\ [][pc = "switch" => now' >= now + SwitchDelayTicks]_vars

\* C39: the two variants of the core helpers agree.  On every poll, that is
\* for every last seen count and every sequence of register values read so
\* far, run_spectrometer.print_acc_cnt and fpga_helper.get_acc_cnt have both
\* returned or both not, with the same new count, after the same number of
\* register reads; and whenever fpga_helper.get_vacc_data has returned, the
\* loops of run_spectrometer.get_vacc_data over the same channel memory
\* contents give the same spectrum, and the count of both is the value of
\* the acc_cnt register read after the memories.
C39_VariantsAgree ==
  /\ sy_reads # <<>> =>
       LET p == print_acc_cnt(sy_reads, sy_last)
       IN /\ p.returned = sy_out.returned
          /\ p.acc_n = sy_out.acc_n
          /\ p.c = sy_out.c
  /\ (RdDone /\ Len(rd_log) = rd_C + 1) =>
       /\ rd_out[1].spectrum =
            interleave_q(rd_raw, (rd_nfft \div 2) \div rd_C, rd_C, 0)
       /\ rd_out[1].cnt = rd_log[Len(rd_log)].val[1]
       /\ rd_log[Len(rd_log)].reg = <<"acc_cnt", 0>>

\* C39 witness: a read of two or more channels of two or more samples each,
\* not all equal, has returned its spectrum
C39_Witness ==
  /\ RdDone
  /\ Len(rd_log) = rd_C + 1
  /\ rd_C >= 2
  /\ (rd_nfft \div 2) \div rd_C >= 2
  /\ \E a, b \in 1 .. Len(rd_out[1].spectrum) :
       rd_out[1].spectrum[a] # rd_out[1].spectrum[b]

====
